---- MODULE Spec2Model ----
(***************************************************************************)
(* A model of the App Store asset scripts of lexiconflow-ios:              *)
(*   scripts/validate_app_store_assets.py      (the asset validator)       *)
(*   scripts/generate-icon-variants.py         (the icon variant generator)*)
(* and of the copies kept under .worktrees/007-app-store-assets-creation/  *)
(* (prefix wt_ below), which differ from the scripts/ versions.            *)
(*                                                                         *)
(* The file system the scripts read is the state; one action is one run of *)
(* a script's main() (or one step of a file-writing loop).                 *)
(***************************************************************************)
EXTENDS Integers, Sequences, FiniteSets, TLC

\* ------------------------------------------------------------------------
\* Bounds of the model
\* ------------------------------------------------------------------------
\* Most files a device directory holds.
MaxFiles == 7
\* Most edits of the screenshots tree in one behaviour.
MaxEdits == 1
\* Runs of the generator on one output directory, the current one included.
MaxRuns == 3
\* Icons the composer is asked for, one after the other.
MaxIcons == 2

\* ------------------------------------------------------------------------
\* Units and messages
\* ------------------------------------------------------------------------
MB == 1024 * 1024

\* One printed line: what it says, the device and file it is about, a count.
Msg(what) == [what |-> what, dev |-> "-", file |-> 0, n |-> 0]
DevMsg(what, d) == [what |-> what, dev |-> d, file |-> 0, n |-> 0]
CountMsg(what, d, n) == [what |-> what, dev |-> d, file |-> 0, n |-> n]
FileMsg(what, d, i) == [what |-> what, dev |-> d, file |-> i, n |-> 0]

Whats(printed) == {printed[i].what : i \in 1..Len(printed)}
Lines(printed) == {printed[i] : i \in 1..Len(printed)}

RECURSIVE Concat(_)
Concat(ss) == IF ss = <<>> THEN <<>> ELSE Head(ss) \o Concat(Tail(ss))

\* ------------------------------------------------------------------------
\* scripts/validate_app_store_assets.py: the static tables
\* ------------------------------------------------------------------------
\* max_size_mb 0.5 is kept in bytes: bytes / (1024 * 1024) > 0.5 iff bytes > MB / 2
ICON_SPECS ==
    [size |-> <<1024, 1024>>, format |-> "PNG", max_size_bytes |-> MB \div 2,
     no_alpha |-> TRUE]

DeviceOrder == <<"iphone_se", "iphone_15", "iphone_15_pro_max", "ipad">>
Devices == {DeviceOrder[i] : i \in 1..Len(DeviceOrder)}

SCREENSHOT_SPECS ==
    ("iphone_se" :> [size |-> <<750, 1334>>, count |-> 6]) @@
    ("iphone_15" :> [size |-> <<1179, 2556>>, count |-> 6]) @@
    ("iphone_15_pro_max" :> [size |-> <<1290, 2796>>, count |-> 6]) @@
    ("ipad" :> [size |-> <<1640, 2360>>, count |-> 6])

VIDEO_SPECS == [format |-> {"M4V", "MOV"}, max_size_bytes |-> 50 * MB]

\* ------------------------------------------------------------------------
\* scripts/validate_app_store_assets.py: validate_icon
\* ------------------------------------------------------------------------
\* f: the file at icon_path, [exists, decodable, size, format, mode, bytes]
IconErrors(f) ==
    (IF f.size[1] # ICON_SPECS.size[1] \/ f.size[2] # ICON_SPECS.size[2]
        THEN <<Msg("wrong_size")>> ELSE <<>>)
    \o (IF f.format # ICON_SPECS.format THEN <<Msg("wrong_format")>> ELSE <<>>)
    \o (IF f.bytes > ICON_SPECS.max_size_bytes THEN <<Msg("too_large")>> ELSE <<>>)

IconWarnings(f) ==
    IF f.mode = "RGBA" /\ ICON_SPECS.no_alpha THEN <<Msg("alpha_channel")>> ELSE <<>>

validate_icon(f) ==
    IF ~f.exists THEN [passed |-> FALSE, printed |-> <<Msg("not_found")>>]
    ELSE IF ~f.decodable THEN [passed |-> FALSE, printed |-> <<Msg("read_error")>>]
    ELSE IF IconErrors(f) # <<>> THEN [passed |-> FALSE, printed |-> IconErrors(f)]
    ELSE IF IconWarnings(f) # <<>>
        THEN [passed |-> TRUE,
              printed |-> IconWarnings(f) \o <<Msg("passes_with_warnings")>>]
    ELSE [passed |-> TRUE, printed |-> <<Msg("passes_all_checks")>>]

\* ------------------------------------------------------------------------
\* scripts/validate_app_store_assets.py: validate_screenshots
\* ------------------------------------------------------------------------
\* A file of a device directory: [png, readable, size]; png is the name's
\* extension, readable whether Image.open succeeds on it.
IsPng(f) == f.png

\* One turn of the loop over SCREENSHOT_SPECS, for device d and its directory.
ScreenshotFileLine(d, f, i) ==
    IF ~f.readable THEN FileMsg("file_error", d, i)
    ELSE IF f.size[1] # SCREENSHOT_SPECS[d].size[1]
            \/ f.size[2] # SCREENSHOT_SPECS[d].size[2]
        THEN FileMsg("wrong_size", d, i)
    ELSE FileMsg("size_ok", d, i)

\* Faulty variants of DeviceReport: the loop's continue after a short count is missing;
\* the count must be met exactly; a short count is printed but not failed.
DeviceReport_NoContinue(d, dir) ==
    LET screenshots == SelectSeq(dir.files, IsPng)
        actual_count == Len(screenshots)
        lines == [i \in 1..actual_count |-> ScreenshotFileLine(d, screenshots[i], i)]
    IN  IF ~dir.exists
            THEN [ok |-> FALSE, printed |-> <<DevMsg("dir_not_found", d)>>]
        ELSE IF actual_count < SCREENSHOT_SPECS[d].count
            THEN [ok |-> FALSE,
                  printed |-> <<CountMsg("count_short", d, actual_count)>> \o lines]
        ELSE [ok |-> \A i \in 1..actual_count : lines[i].what = "size_ok",
              printed |-> lines]

DeviceReport_ExactCount(d, dir) ==
    LET screenshots == SelectSeq(dir.files, IsPng)
        actual_count == Len(screenshots)
        lines == [i \in 1..actual_count |-> ScreenshotFileLine(d, screenshots[i], i)]
    IN  IF ~dir.exists
            THEN [ok |-> FALSE, printed |-> <<DevMsg("dir_not_found", d)>>]
        ELSE IF actual_count # SCREENSHOT_SPECS[d].count
            THEN [ok |-> FALSE,
                  printed |-> <<CountMsg("count_short", d, actual_count)>>]
        ELSE [ok |-> \A i \in 1..actual_count : lines[i].what = "size_ok",
              printed |-> lines]

DeviceReport_ShortCountPasses(d, dir) ==
    LET screenshots == SelectSeq(dir.files, IsPng)
        actual_count == Len(screenshots)
        lines == [i \in 1..actual_count |-> ScreenshotFileLine(d, screenshots[i], i)]
    IN  IF ~dir.exists
            THEN [ok |-> FALSE, printed |-> <<DevMsg("dir_not_found", d)>>]
        ELSE IF actual_count < SCREENSHOT_SPECS[d].count
            THEN [ok |-> TRUE,
                  printed |-> <<CountMsg("count_short", d, actual_count)>>]
        ELSE [ok |-> \A i \in 1..actual_count : lines[i].what = "size_ok",
              printed |-> lines]

DeviceReport(d, dir) ==
    LET screenshots == SelectSeq(dir.files, IsPng)
        actual_count == Len(screenshots)
        lines == [i \in 1..actual_count |-> ScreenshotFileLine(d, screenshots[i], i)]
    IN  IF ~dir.exists
            THEN [ok |-> FALSE, printed |-> <<DevMsg("dir_not_found", d)>>]
        ELSE IF actual_count < SCREENSHOT_SPECS[d].count
            THEN [ok |-> FALSE,
                  printed |-> <<CountMsg("count_short", d, actual_count)>>]
        ELSE [ok |-> \A i \in 1..actual_count : lines[i].what = "size_ok",
              printed |-> lines]

\* tree: [root, devs]; root is "dir", "file" or "missing"
validate_screenshots(tree) ==
    LET reports == [i \in 1..Len(DeviceOrder) |->
                        DeviceReport(DeviceOrder[i], tree.devs[DeviceOrder[i]])]
        all_passed == \A i \in 1..Len(DeviceOrder) : reports[i].ok
    IN  IF tree.root # "dir"
            THEN [passed |-> FALSE, printed |-> <<Msg("dir_not_found")>>]
        ELSE [passed |-> all_passed,
              printed |-> Concat([i \in 1..Len(DeviceOrder) |-> reports[i].printed])
                          \o (IF all_passed THEN <<Msg("all_validated")>> ELSE <<>>)]

\* ------------------------------------------------------------------------
\* scripts/validate_app_store_assets.py: validate_video
\* ------------------------------------------------------------------------
\* os.path.splitext(video_path)[1].upper().lstrip(".")
NormExt(raw) ==
    CASE raw = ".m4v" -> "M4V"
      [] raw = ".MOV" -> "MOV"
      [] raw = ".mov" -> "MOV"
      [] raw = ".mp4" -> "MP4"
      [] OTHER -> ""

\* Faulty variant of validate_video: a wrong extension fails the check.
validate_video_ExtensionFails(v, raw) ==
    IF ~v.exists THEN [passed |-> FALSE, printed |-> <<Msg("not_found")>>]
    ELSE IF v.bytes > VIDEO_SPECS.max_size_bytes
        THEN [passed |-> FALSE, printed |-> <<Msg("too_large")>>]
    ELSE IF NormExt(raw) \notin VIDEO_SPECS.format
        THEN [passed |-> FALSE, printed |-> <<Msg("extension_warning")>>]
    ELSE [passed |-> TRUE,
          printed |-> <<Msg("full_validation_requires_ffmpeg"),
                        Msg("basic_checks_passed")>>]

\* v: the file at video_path, [exists, bytes]; raw: the path's extension
validate_video(v, raw) ==
    IF ~v.exists THEN [passed |-> FALSE, printed |-> <<Msg("not_found")>>]
    ELSE IF v.bytes > VIDEO_SPECS.max_size_bytes
        THEN [passed |-> FALSE, printed |-> <<Msg("too_large")>>]
    ELSE [passed |-> TRUE,
          printed |-> (IF NormExt(raw) \notin VIDEO_SPECS.format
                          THEN <<Msg("extension_warning")>> ELSE <<>>)
                      \o <<Msg("full_validation_requires_ffmpeg"),
                           Msg("basic_checks_passed")>>]

\* ------------------------------------------------------------------------
\* scripts/validate_app_store_assets.py: validate_all and main
\* ------------------------------------------------------------------------
NotRun == [passed |-> FALSE, printed |-> <<>>]

\* Faulty variant of validate_all: any() in place of all().
validate_all_AnyPassed(ic, tree, v) ==
    LET icon_r == IF ic.exists THEN validate_icon(ic) ELSE NotRun
        shots_r == IF tree.root # "missing" THEN validate_screenshots(tree) ELSE NotRun
        video_r == IF v.exists THEN validate_video(v, ".m4v") ELSE NotRun
        any_passed == icon_r.passed \/ shots_r.passed \/ video_r.passed
    IN  [icon |-> icon_r, screenshots |-> shots_r, video |-> video_r,
         summary |-> <<[asset |-> "icon", passed |-> icon_r.passed],
                       [asset |-> "screenshots", passed |-> shots_r.passed],
                       [asset |-> "video", passed |-> video_r.passed]>>,
         exit |-> IF any_passed THEN 0 ELSE 1]

\* The three outcomes, the summary lines and the status validate_all returns.
validate_all(ic, tree, v) ==
    LET icon_r == IF ic.exists THEN validate_icon(ic) ELSE NotRun
        shots_r == IF tree.root # "missing" THEN validate_screenshots(tree) ELSE NotRun
        video_r == IF v.exists THEN validate_video(v, ".m4v") ELSE NotRun
        all_passed == icon_r.passed /\ shots_r.passed /\ video_r.passed
    IN  [icon |-> icon_r, screenshots |-> shots_r, video |-> video_r,
         summary |-> <<[asset |-> "icon", passed |-> icon_r.passed],
                       [asset |-> "screenshots", passed |-> shots_r.passed],
                       [asset |-> "video", passed |-> video_r.passed]>>,
         exit |-> IF all_passed THEN 0 ELSE 1]

\* ------------------------------------------------------------------------
\* .worktrees/007-app-store-assets-creation/scripts/validate_app_store_assets.py
\* ------------------------------------------------------------------------
EXPECTED_FILES ==
    [app_icon |-> [width |-> 1024, height |-> 1024, format |-> "PNG",
                   max_size_bytes |-> MB \div 2, required |-> TRUE]]

EXPECTED_SCREENSHOTS ==
    ("iphone_se" :> [count |-> 6, width |-> 640, height |-> 1136]) @@
    ("iphone_15" :> [count |-> 6, width |-> 1290, height |-> 2796]) @@
    ("iphone_15_pro_max" :> [count |-> 6, width |-> 1320, height |-> 2868]) @@
    ("ipad" :> [count |-> 6, width |-> 2732, height |-> 2048])

EXPECTED_VIDEO == [format |-> "M4V", max_size_bytes |-> 50 * MB, required |-> FALSE]

\* No dimensions could be read (Python's None).
NoDims == <<>>

\* env: [has_pil, darwin]. Image.open reads what is decodable; without Pillow,
\* on macOS, the file command gives the dimensions of a PNG only.
get_image_dimensions(f, env) ==
    IF ~f.exists THEN NoDims
    ELSE IF env.has_pil /\ f.decodable THEN f.size
    ELSE IF env.darwin /\ f.decodable /\ f.format = "PNG" THEN f.size
    ELSE NoDims

wt_validate_app_icon(primary, alt, env) ==
    LET icon == EXPECTED_FILES.app_icon
        f == IF primary.exists THEN primary ELSE alt
        dims == get_image_dimensions(f, env)
        found == (IF primary.exists THEN <<>> ELSE <<Msg("found_at_alternative_path")>>)
                 \o <<Msg("file_exists")>>
        dims_ok == dims # NoDims /\ dims[1] = icon.width /\ dims[2] = icon.height
        dims_line == IF dims = NoDims THEN <<Msg("dimensions_not_verified")>>
                     ELSE <<Msg("dimensions_ok")>>
        size_line == IF f.bytes # 0 THEN <<Msg("file_size_ok")>> ELSE <<>>
    IN  IF ~primary.exists /\ ~alt.exists
            THEN [passed |-> FALSE, printed |-> <<Msg("not_found")>>]
        ELSE IF dims # NoDims /\ ~dims_ok
            THEN [passed |-> FALSE, printed |-> found \o <<Msg("wrong_size")>>]
        ELSE IF f.bytes # 0 /\ f.bytes > icon.max_size_bytes
            THEN [passed |-> FALSE,
                  printed |-> found \o dims_line \o <<Msg("too_large")>>]
        ELSE [passed |-> TRUE,
              printed |-> found \o dims_line \o size_line \o <<Msg("icon_valid")>>]

\* A screenshot file as get_image_dimensions sees it.
AsImage(f) == [exists |-> TRUE, decodable |-> f.readable, size |-> f.size,
               format |-> "PNG"]

wt_DeviceReport(d, tree, env) ==
    LET specs == EXPECTED_SCREENSHOTS[d]
        dir == tree.devs[d]
        files == SelectSeq(dir.files, IsPng)
        actual_count == Len(files)
        dims == get_image_dimensions(AsImage(files[1]), env)
        count_line == IF actual_count < specs.count
                          THEN <<CountMsg("incomplete", d, actual_count)>>
                          ELSE <<CountMsg("count_ok", d, actual_count)>>
    IN  IF tree.root # "dir" \/ ~dir.exists
            THEN [ok |-> TRUE, printed |-> <<DevMsg("dir_not_found", d)>>]
        ELSE IF actual_count = 0
            THEN [ok |-> TRUE, printed |-> <<DevMsg("no_screenshots", d)>>]
        ELSE IF dims = NoDims THEN [ok |-> TRUE, printed |-> count_line]
        ELSE IF dims[1] = specs.width /\ dims[2] = specs.height
            THEN [ok |-> TRUE, printed |-> count_line \o <<FileMsg("size_ok", d, 1)>>]
        ELSE [ok |-> FALSE, printed |-> count_line \o <<FileMsg("wrong_size", d, 1)>>]

wt_validate_screenshots(tree, env) ==
    LET reports == [i \in 1..Len(DeviceOrder) |->
                        wt_DeviceReport(DeviceOrder[i], tree, env)]
    IN  [passed |-> \A i \in 1..Len(DeviceOrder) : reports[i].ok,
         printed |-> Concat([i \in 1..Len(DeviceOrder) |-> reports[i].printed])
                     \o <<Msg("awaiting_manual_capture")>>]

\* v: the file at EXPECTED_VIDEO's path; exports: whether fastlane/video/exports/
\* exists; others: the sizes of the *.m4v and *.mov files found there.
wt_validate_video(v, exports, others) ==
    LET bytes == IF v.exists THEN v.bytes ELSE others[1]
        found == (IF v.exists THEN <<>> ELSE <<Msg("found_other_video")>>)
                 \o <<Msg("file_exists")>>
    IN  IF ~v.exists /\ (~exports \/ others = <<>>)
            THEN [passed |-> TRUE, printed |-> <<Msg("video_not_found")>>]
        ELSE IF bytes # 0 /\ bytes > EXPECTED_VIDEO.max_size_bytes
            THEN [passed |-> FALSE, printed |-> found \o <<Msg("too_large")>>]
        ELSE [passed |-> TRUE,
              printed |-> found
                          \o (IF bytes # 0 THEN <<Msg("file_size_ok")>> ELSE <<>>)
                          \o <<Msg("duration_not_checked"), Msg("video_valid")>>]

wt_main(primary, alt, tree, v, exports, others, env) ==
    LET icon_r == wt_validate_app_icon(primary, alt, env)
        shots_r == wt_validate_screenshots(tree, env)
        video_r == wt_validate_video(v, exports, others)
        all_valid == icon_r.passed /\ shots_r.passed /\ video_r.passed
    IN  [icon |-> icon_r, screenshots |-> shots_r, video |-> video_r,
         summary |-> <<[asset |-> "app_icon", passed |-> icon_r.passed],
                       [asset |-> "screenshots", passed |-> shots_r.passed],
                       [asset |-> "video", passed |-> video_r.passed]>>,
         exit |-> IF all_valid THEN 0 ELSE 1]

\* ------------------------------------------------------------------------
\* scripts/generate-icon-variants.py: the size table and the file names
\* ------------------------------------------------------------------------
\* (export_size, display_size, scale, filename); stem is the filename without
\* its extension, as os.path.splitext gives it.
IconSize(export_size, display_size, scale, stem) ==
    [export_size |-> export_size, display_size |-> display_size, scale |-> scale,
     stem |-> stem]

IOS_ICON_SIZES ==
    << IconSize(1024, 1024, 1, "app-icon-1024"),
       IconSize(512, 512, 1, "app-icon-512"),
       IconSize(256, 256, 1, "app-icon-256"),
       IconSize(128, 128, 1, "app-icon-128"),
       IconSize(128, 64, 2, "app-icon-64@2x"),
       IconSize(120, 60, 2, "app-icon-60@2x"),
       IconSize(180, 60, 3, "app-icon-60@3x"),
       IconSize(80, 40, 2, "app-icon-40@2x"),
       IconSize(120, 40, 3, "app-icon-40@3x"),
       IconSize(58, 29, 2, "app-icon-29@2x"),
       IconSize(87, 29, 3, "app-icon-29@3x"),
       IconSize(40, 20, 2, "app-icon-20@2x"),
       IconSize(60, 20, 3, "app-icon-20@3x"),
       IconSize(16, 16, 1, "app-icon-16") >>

\* The table's filename, and the name generate_variants writes under a suffix.
Filename(e) == e.stem \o ".png"
SuffixedFilename(e, suffix) ==
    IF suffix # "" THEN e.stem \o suffix \o ".png" ELSE Filename(e)

\* master.resize((export_size, export_size), LANCZOS); the faulty variant
\* resizes to the display size.
Resize_DisplaySize(img, e) == [size |-> <<e.display_size, e.display_size>>, mode |-> img.mode]

Resize(img, e) == [size |-> <<e.export_size, e.export_size>>, mode |-> img.mode]

\* A directory's files: a function from the names present to their images.
NoFiles == <<>>
Present(files, name) == name \in DOMAIN files
\* resized.save(output_path) replaces a file of that name; the faulty variant
\* keeps the old file and saves beside it.
WriteFile_KeepBoth(files, name, img) ==
    IF name \in DOMAIN files THEN ((name \o ".1") :> img) @@ files
    ELSE (name :> img) @@ files

WriteFile(files, name, img) == (name :> img) @@ files

\* response.lower(); the faulty variant compares the answer as typed.
Lower_AsTyped(response) == response

Lower(response) == IF response = "Y" THEN "y" ELSE response

\* ------------------------------------------------------------------------
\* scripts/generate-icon-variants.py: generate_contents_json, validate_icons
\* ------------------------------------------------------------------------
ContentsEntry(e, suffix) ==
    LET filename == SuffixedFilename(e, suffix)
        dark == suffix = "-dark"
    IN  IF e.export_size = 1024
            THEN [filename |-> filename, idiom |-> "universal", scale |-> 0,
                  size |-> 1024, dark |-> dark]
        ELSE IF e.display_size \in {60, 40, 29, 20}
            THEN [filename |-> filename,
                  idiom |-> IF e.export_size \in {120, 180, 58, 87, 40, 60}
                                THEN "iphone" ELSE "ipad",
                  scale |-> e.scale, size |-> e.display_size, dark |-> dark]
        ELSE [filename |-> filename, idiom |-> "mac", scale |-> e.scale,
              size |-> e.display_size, dark |-> dark]

\* The images list of Contents.json, for the default suffixes "" and "-dark".
generate_contents_json(files) ==
    LET suffixes == <<"", "-dark">>
        ForSuffix(suffix) ==
            Concat([i \in 1..Len(IOS_ICON_SIZES) |->
                IF Present(files, SuffixedFilename(IOS_ICON_SIZES[i], suffix))
                    THEN <<ContentsEntry(IOS_ICON_SIZES[i], suffix)>> ELSE <<>>])
    IN  Concat([j \in 1..Len(suffixes) |-> ForSuffix(suffixes[j])])

\* next(f[0] for f in IOS_ICON_SIZES if f[3] == filename)
ExpectedSize(filename) ==
    LET i == CHOOSE i \in 1..Len(IOS_ICON_SIZES) :
                 /\ Filename(IOS_ICON_SIZES[i]) = filename
                 /\ \A j \in 1..(i - 1) : Filename(IOS_ICON_SIZES[j]) # filename
    IN  IOS_ICON_SIZES[i].export_size

\* validate_icons looks for the table's file names, without any suffix.
validate_icons(files) ==
    \A i \in 1..Len(IOS_ICON_SIZES) :
        LET filename == Filename(IOS_ICON_SIZES[i])
        IN  /\ Present(files, filename)
            /\ files[filename].size =
                   <<ExpectedSize(filename), ExpectedSize(filename)>>

\* ------------------------------------------------------------------------
\* .worktrees/007-app-store-assets-creation/scripts/generate-icon-variants.py
\* ------------------------------------------------------------------------
ICON_SIZES == <<16, 29, 32, 40, 58, 60, 76, 80, 87, 120, 152, 167, 180, 1024>>

\* f"AppIcon-{size}x{size}.png"
WtFilename(size) == "AppIcon-" \o ToString(size) \o "x" \o ToString(size) \o ".png"

\* The master as the loop uses it: flattened or converted to RGB.
WtConvert(img) == [size |-> img.size, mode |-> "RGB"]

\* The 1024 entry saves the master as it is; the others are resized.
WtVariant(img, size) ==
    IF size = 1024 THEN img ELSE [size |-> <<size, size>>, mode |-> img.mode]

\* ------------------------------------------------------------------------
\* State
\* ------------------------------------------------------------------------
VARIABLES
    icon,       \* the file at the validator's icon path
    altIcon,    \* the file at docs/AppIcon-1024.png
    video,      \* the file at the preview video's path
    exports,    \* whether fastlane/video/exports/ exists
    others,     \* sizes of the other *.m4v, *.mov files in fastlane/video/exports/
    shots,      \* the screenshots tree: [root, devs]
    env,        \* [has_pil, darwin]
    edits,      \* edits of the screenshots tree so far
    lastEdit,   \* the last edit of the screenshots tree
    vout,       \* what the last validator run printed and returned
    master,     \* the file at the generator's input path
    outDir,     \* the generator's output directory: [exists, files]
    manifest,   \* Contents.json in the output directory: [exists, images]
    gargs,      \* the generator's command line
    answer,     \* what the operator answers if asked "Continue anyway? (y/n)"
    gpc,        \* where the generator run is: "off", "ready", "writing", "done"
    gimg,       \* the master image the loop resizes
    gk,         \* the table entry the loop writes next
    generated,  \* generated_files: the names written so far
    gout,       \* the generator's exit status and what it reported
    runs,       \* the earlier runs on the output directory: their suffix, mode and exit
    pargs,      \* the screenshot processor's arguments: device, captions, entry
    rawDir,     \* the raw screenshots of the device: file name -> file
    procOut,    \* the processor's output directory of the device: [exists, files]
    ppc,        \* where the processor run is: "off", "ready", "loop", "done"
    pidx,       \* the ordinal index the loop handles next
    pio,        \* the input files probed and read so far
    pcap,       \* the last call of add_caption: its image and what it returned
    pout,       \* the processor's exit status and warnings
    cmode,      \* the composer's mode argument
    rng,        \* the state of numpy's global generator
    seeded,     \* what the caller seeded the generator with before the call
    cpc,        \* where create_app_icon is
    layers,     \* the layers create_app_icon has built
    canvas,     \* the accumulated image (icon, then icon_rgb)
    saved,      \* the icons saved so far: [mode, seed, image]
    fs,         \* the output directories two concurrent invocations may target
    inv         \* the two concurrent invocations: what each is and where it is

vVal == <<icon, altIcon, video, exports, others, shots, env, edits, lastEdit, vout>>
vGen == <<master, outDir, manifest, gargs, answer, gpc, gimg, gk, generated, gout, runs>>
vProc == <<pargs, rawDir, procOut, ppc, pidx, pio, pcap, pout>>
vArt == <<cmode, rng, seeded, cpc, layers, canvas, saved>>
vCo == <<fs, inv>>

\* ------------------------------------------------------------------------
\* The files the model draws its inputs from
\* ------------------------------------------------------------------------
AbsentIcon == [exists |-> FALSE, decodable |-> FALSE, size |-> <<0, 0>>,
               format |-> "-", mode |-> "-", bytes |-> 0]
GoodIcon == [exists |-> TRUE, decodable |-> TRUE, size |-> <<1024, 1024>>,
             format |-> "PNG", mode |-> "RGB", bytes |-> MB \div 2]

\* Pillow opens a PNG as RGB, RGBA or LA (grey with alpha), a JPEG as RGB.
IconFiles ==
    {AbsentIcon}
    \cup {[exists |-> TRUE, decodable |-> FALSE, size |-> <<0, 0>>, format |-> "-",
           mode |-> "-", bytes |-> b] : b \in {MB \div 2, MB \div 2 + 1}}
    \cup {[exists |-> TRUE, decodable |-> TRUE, size |-> sz, format |-> fm[1],
           mode |-> fm[2], bytes |-> b] :
            sz \in {<<1024, 1024>>, <<900, 900>>, <<1024, 900>>},
            fm \in {<<"PNG", "RGB">>, <<"PNG", "RGBA">>, <<"PNG", "LA">>,
                    <<"JPEG", "RGB">>},
            b \in {MB \div 2, MB \div 2 + 1}}

AbsentVideo == [exists |-> FALSE, bytes |-> 0]
VideoSizes == {0, 50 * MB, 50 * MB + 1}
VideoFiles == {AbsentVideo} \cup {[exists |-> TRUE, bytes |-> b] : b \in VideoSizes}
VideoExts == {".m4v", ".MOV", ".mp4", ""}

Envs == [has_pil : BOOLEAN, darwin : BOOLEAN]

\* Files of device d's directory.
Good(d) == [png |-> TRUE, readable |-> TRUE, size |-> SCREENSHOT_SPECS[d].size]
WtGood(d) == [png |-> TRUE, readable |-> TRUE,
              size |-> <<EXPECTED_SCREENSHOTS[d].width, EXPECTED_SCREENSHOTS[d].height>>]
Odd == [png |-> TRUE, readable |-> TRUE, size |-> <<100, 100>>]
Corrupt == [png |-> TRUE, readable |-> FALSE, size |-> <<0, 0>>]
Note == [png |-> FALSE, readable |-> FALSE, size |-> <<0, 0>>]
FileKinds(d) == {Good(d), WtGood(d), Odd, Corrupt, Note}

Rep(f, n) == [i \in 1..n |-> f]
NoDir == [exists |-> FALSE, files |-> <<>>]
Dir(files) == [exists |-> TRUE, files |-> files]

\* A device directory at the start: absent, complete, two short, complete with
\* one file of a wrong size among the six or beside them, or holding files of
\* the worktree table's size. At most two directories are not complete.
DirTemplates(d) ==
    {NoDir, Dir(Rep(Good(d), 6)), Dir(Rep(Good(d), 4)),
     Dir(<<Odd>> \o Rep(Good(d), 5)), Dir(<<Odd>> \o Rep(Good(d), 6)),
     Dir(<<Odd>> \o Rep(WtGood(d), 6))}

GoodTree == [root |-> "dir", devs |-> [d \in Devices |-> Dir(Rep(Good(d), 6))]]
NoTree(kind) == [root |-> kind, devs |-> [d \in Devices |-> NoDir]]
ShortTree ==
    [root |-> "dir",
     devs |-> [d \in Devices |-> IF d = "ipad" THEN Dir(Rep(Good(d), 4))
                                 ELSE Dir(Rep(Good(d), 6))]]
TreeTemplates ==
    {[root |-> "dir", devs |-> ds] :
        ds \in {t \in [Devices -> UNION {DirTemplates(d) : d \in Devices}] :
                    /\ \A d \in Devices : t[d] \in DirTemplates(d)
                    /\ Cardinality({d \in Devices : t[d] # Dir(Rep(Good(d), 6))}) <= 2}}

NoEdit == [op |-> "none", dev |-> "-", file |-> Note]
NoRun == [tool |-> "none"]

\* ------------------------------------------------------------------------
\* Edits of the screenshots tree (the operator's, between validator runs)
\* ------------------------------------------------------------------------
InsertAt(s, i, f) == SubSeq(s, 1, i - 1) \o <<f>> \o SubSeq(s, i, Len(s))
RemoveAt(s, i) == SubSeq(s, 1, i - 1) \o SubSeq(s, i + 1, Len(s))

WithDir(tree, d, dir) == [tree EXCEPT !.devs[d] = dir]

\* A file is added to device d's directory, first or last by name.
AddFile(d, f, i) ==
    /\ vout.tool = "none" /\ edits < MaxEdits
    /\ shots.root = "dir" /\ shots.devs[d].exists
    /\ Len(shots.devs[d].files) < MaxFiles
    /\ i \in {1, Len(shots.devs[d].files) + 1}
    /\ shots' = WithDir(shots, d, Dir(InsertAt(shots.devs[d].files, i, f)))
    /\ edits' = edits + 1
    /\ lastEdit' = [op |-> "add", dev |-> d, file |-> f]
    /\ UNCHANGED <<vGen, vProc, vArt, vCo>>
    /\ UNCHANGED <<icon, altIcon, video, exports, others, env, vout>>

RemoveFile(d, i) ==
    /\ vout.tool = "none" /\ edits < MaxEdits
    /\ shots.root = "dir" /\ shots.devs[d].exists
    /\ i \in 1..Len(shots.devs[d].files)
    /\ shots' = WithDir(shots, d, Dir(RemoveAt(shots.devs[d].files, i)))
    /\ edits' = edits + 1
    /\ lastEdit' = [op |-> "remove", dev |-> d, file |-> shots.devs[d].files[i]]
    /\ UNCHANGED <<vGen, vProc, vArt, vCo>>
    /\ UNCHANGED <<icon, altIcon, video, exports, others, env, vout>>

\* ------------------------------------------------------------------------
\* scripts/validate_app_store_assets.py: one run of main()
\* ------------------------------------------------------------------------
\* The import of Pillow fails: the script exits before main().
MainNoPillow ==
    /\ ~env.has_pil
    /\ vout' = [tool |-> "validate: no Pillow", exit |-> 1]
    /\ UNCHANGED <<vGen, vProc, vArt, vCo>>
    /\ UNCHANGED <<icon, altIcon, video, exports, others, shots, env, edits, lastEdit>>

MainAll ==
    /\ env.has_pil
    /\ vout' = [tool |-> "validate --all"] @@ validate_all(icon, shots, video)
    /\ UNCHANGED <<vGen, vProc, vArt, vCo>>
    /\ UNCHANGED <<icon, altIcon, video, exports, others, shots, env, edits, lastEdit>>

MainIcon ==
    /\ env.has_pil
    /\ LET r == validate_icon(icon)
       IN  vout' = [tool |-> "validate --icon", icon |-> r,
                    exit |-> IF r.passed THEN 0 ELSE 1]
    /\ UNCHANGED <<vGen, vProc, vArt, vCo>>
    /\ UNCHANGED <<icon, altIcon, video, exports, others, shots, env, edits, lastEdit>>

MainScreenshots ==
    /\ env.has_pil
    /\ LET r == validate_screenshots(shots)
       IN  vout' = [tool |-> "validate --screenshots", screenshots |-> r,
                    exit |-> IF r.passed THEN 0 ELSE 1]
    /\ UNCHANGED <<vGen, vProc, vArt, vCo>>
    /\ UNCHANGED <<icon, altIcon, video, exports, others, shots, env, edits, lastEdit>>

MainVideo(raw) ==
    /\ env.has_pil
    /\ LET r == validate_video(video, raw)
       IN  vout' = [tool |-> "validate --video", video |-> r, ext |-> raw,
                    exit |-> IF r.passed THEN 0 ELSE 1]
    /\ UNCHANGED <<vGen, vProc, vArt, vCo>>
    /\ UNCHANGED <<icon, altIcon, video, exports, others, shots, env, edits, lastEdit>>

\* No option given: the help is printed.
MainNoArgs ==
    /\ env.has_pil
    /\ vout' = [tool |-> "validate", exit |-> 1]
    /\ UNCHANGED <<vGen, vProc, vArt, vCo>>
    /\ UNCHANGED <<icon, altIcon, video, exports, others, shots, env, edits, lastEdit>>

\* The worktree's validator: one run of its main(), which takes no paths.
WtMain ==
    /\ vout' = [tool |-> "wt validate"]
               @@ wt_main(icon, altIcon, shots, video, exports, others, env)
    /\ UNCHANGED <<vGen, vProc, vArt, vCo>>
    /\ UNCHANGED <<icon, altIcon, video, exports, others, shots, env, edits, lastEdit>>

\* ------------------------------------------------------------------------
\* The generator's inputs
\* ------------------------------------------------------------------------
AbsentMaster == [exists |-> FALSE, decodable |-> FALSE, size |-> <<0, 0>>, mode |-> "-"]
Masters ==
    {AbsentMaster,
     [exists |-> TRUE, decodable |-> FALSE, size |-> <<0, 0>>, mode |-> "-"]}
    \cup {[exists |-> TRUE, decodable |-> TRUE, size |-> sz, mode |-> md] :
            sz \in {<<1024, 1024>>, <<512, 512>>, <<2048, 1024>>},
            md \in {"RGB", "RGBA"}}

NoOutDir == [exists |-> FALSE, files |-> NoFiles]
EmptyOutDir == [exists |-> TRUE, files |-> NoFiles]
\* An output directory that holds files of an earlier run, of other sizes.
StaleOutDir ==
    [exists |-> TRUE,
     files |-> ("app-icon-16.png" :> [size |-> <<32, 32>>, mode |-> "RGBA"])
               @@ ("AppIcon-16x16.png" :> [size |-> <<32, 32>>, mode |-> "RGBA"])]

\* --suffix: none, the dark mode's, and one more (a tinted set).
Suffixes == {"", "-dark", "-tinted"}

\* scripts/: --input given or not, --suffix, --validate, --update-contents-json;
\* the worktree's: the master path given or not.
GenArgs ==
    [tool : {"gen"}, input : BOOLEAN, suffix : Suffixes, validate : BOOLEAN,
     update : BOOLEAN]
    \cup [tool : {"wt gen"}, input : BOOLEAN, suffix : {""}, validate : {FALSE},
          update : {FALSE}]

\* "EOF": standard input is closed, input() raises EOFError.
Answers == {"y", "Y", "n", "EOF"}

NoImage == [size |-> <<0, 0>>, mode |-> "-"]
NoManifest == [exists |-> FALSE, images |-> <<>>]
Running == [exit |-> -1, validated |-> "not run", prompted |-> FALSE, error |-> "-"]
Exit(status, error, prompted) ==
    [exit |-> status, validated |-> "not run", prompted |-> prompted, error |-> error]

GenOff ==
    /\ master = AbsentMaster /\ outDir = NoOutDir /\ manifest = NoManifest
    /\ gargs = [tool |-> "-", input |-> FALSE, suffix |-> "", validate |-> FALSE,
                update |-> FALSE]
    /\ answer = "n" /\ gpc = "off" /\ gimg = NoImage /\ gk = 0
    /\ generated = <<>> /\ gout = Running /\ runs = <<>>

ValOff ==
    /\ icon = AbsentIcon /\ altIcon = AbsentIcon /\ video = AbsentVideo
    /\ exports = FALSE /\ others = <<>> /\ shots = NoTree("missing")
    /\ env = [has_pil |-> TRUE, darwin |-> FALSE]
    /\ edits = 0 /\ lastEdit = NoEdit /\ vout = NoRun

\* ------------------------------------------------------------------------
\* scripts/generate-icon-variants.py: main and generate_variants
\* ------------------------------------------------------------------------
\* The master is 1024x1024, or the operator answers y to the prompt.
Asked == master.size # <<1024, 1024>>
Confirmed == answer # "EOF" /\ Lower(answer) = "y"

\* --update-contents-json: Contents.json is written into an existing directory.
GenUpdateContents ==
    /\ gpc = "ready" /\ gargs.tool = "gen" /\ gargs.update
    /\ IF ~outDir.exists
          THEN /\ gout' = Exit(1, "output directory not found", FALSE)
               /\ UNCHANGED manifest
          ELSE /\ manifest' = [exists |-> TRUE,
                               images |-> generate_contents_json(outDir.files)]
               /\ gout' = Exit(0, "-", FALSE)
    /\ gpc' = "done"
    /\ UNCHANGED runs
    /\ UNCHANGED <<master, outDir, gargs, answer, gimg, gk, generated>>
    /\ UNCHANGED <<vVal, vProc, vArt, vCo>>

\* Without --input the help is printed and the run exits 1.
GenNoInput ==
    /\ gpc = "ready" /\ gargs.tool = "gen" /\ ~gargs.update /\ ~gargs.input
    /\ gout' = Exit(1, "--input is required", FALSE)
    /\ gpc' = "done"
    /\ UNCHANGED runs
    /\ UNCHANGED <<master, outDir, manifest, gargs, answer, gimg, gk, generated>>
    /\ UNCHANGED <<vVal, vProc, vArt, vCo>>

\* generate_variants up to its loop: the input is checked and loaded, the
\* operator asked about a master of another size, the directory created.
GenStart ==
    /\ gpc = "ready" /\ gargs.tool = "gen" /\ ~gargs.update /\ gargs.input
    /\ IF ~master.exists
          THEN /\ gout' = Exit(1, "input file not found", FALSE)
               /\ gpc' = "done"
               /\ UNCHANGED <<outDir, gimg, gk>>
       ELSE IF ~master.decodable
          THEN /\ gout' = Exit(1, "error loading image", FALSE)
               /\ gpc' = "done"
               /\ UNCHANGED <<outDir, gimg, gk>>
       ELSE IF Asked /\ ~Confirmed
          THEN /\ gout' = Exit(1, IF answer = "EOF" THEN "error loading image"
                                  ELSE "declined", TRUE)
               /\ gpc' = "done"
               /\ UNCHANGED <<outDir, gimg, gk>>
       ELSE /\ outDir' = [outDir EXCEPT !.exists = TRUE]
            /\ gimg' = [size |-> master.size, mode |-> master.mode]
            /\ gk' = 1
            /\ gpc' = "writing"
            /\ gout' = [Running EXCEPT !.prompted = Asked]
    /\ UNCHANGED runs
    /\ UNCHANGED <<master, manifest, gargs, answer, generated>>
    /\ UNCHANGED <<vVal, vProc, vArt, vCo>>

\* One turn of the loop over IOS_ICON_SIZES: resize, save, append.
GenWrite ==
    /\ gpc = "writing" /\ gargs.tool = "gen" /\ gk <= Len(IOS_ICON_SIZES)
    /\ LET e == IOS_ICON_SIZES[gk]
           filename == SuffixedFilename(e, gargs.suffix)
       IN  /\ outDir' = [outDir EXCEPT !.files = WriteFile(@, filename, Resize(gimg, e))]
           /\ generated' = Append(generated, filename)
    /\ gk' = gk + 1
    /\ UNCHANGED runs
    /\ UNCHANGED <<master, manifest, gargs, answer, gpc, gimg, gout>>
    /\ UNCHANGED <<vVal, vProc, vArt, vCo>>

\* After the loop: validate_icons if --validate was given (main drops what it
\* returns), the closing lines, and the end of main: exit status 0.
GenFinish ==
    /\ gpc = "writing" /\ gargs.tool = "gen" /\ gk > Len(IOS_ICON_SIZES)
    /\ gout' = [gout EXCEPT
                   !.exit = 0,
                   !.validated = IF ~gargs.validate THEN "not run"
                                 ELSE IF validate_icons(outDir.files) THEN "pass"
                                 ELSE "fail"]
    /\ gpc' = "done"
    /\ UNCHANGED runs
    /\ UNCHANGED <<master, outDir, manifest, gargs, answer, gimg, gk, generated>>
    /\ UNCHANGED <<vVal, vProc, vArt, vCo>>

\* The process is killed inside the loop (128 + SIGKILL): the files written
\* so far stay in the output directory.
GenCrash ==
    /\ gpc = "writing" /\ gargs.tool = "gen"
    /\ gout' = [gout EXCEPT !.exit = 137, !.error = "killed"]
    /\ gpc' = "done"
    /\ UNCHANGED runs
    /\ UNCHANGED <<master, outDir, manifest, gargs, answer, gimg, gk, generated>>
    /\ UNCHANGED <<vVal, vProc, vArt, vCo>>

\* The operator starts the tool again on the same directory, with the command
\* line args: a new process, with nothing loaded and nothing generated yet.
GenRunAgain(args) ==
    /\ gpc = "done" /\ gargs.tool = "gen" /\ Len(runs) + 1 < MaxRuns
    /\ runs' = Append(runs, [suffix |-> gargs.suffix, update |-> gargs.update,
                             exit |-> gout.exit])
    /\ gargs' = args
    /\ gpc' = "ready" /\ gimg' = NoImage /\ gk' = 0 /\ generated' = <<>>
    /\ gout' = Running
    /\ UNCHANGED <<master, outDir, manifest, answer>>
    /\ UNCHANGED <<vVal, vProc, vArt, vCo>>

\* ------------------------------------------------------------------------
\* The worktree's generate-icon-variants.py: main and generate_icon_variants
\* ------------------------------------------------------------------------
\* No master path on the command line: the usage is printed.
WtGenUsage ==
    /\ gpc = "ready" /\ gargs.tool = "wt gen" /\ ~gargs.input
    /\ gout' = Exit(1, "usage", FALSE)
    /\ gpc' = "done"
    /\ UNCHANGED runs
    /\ UNCHANGED <<master, outDir, manifest, gargs, answer, gimg, gk, generated>>
    /\ UNCHANGED <<vVal, vProc, vArt, vCo>>

\* Up to the loop: the output directory is created before the master is opened.
WtGenStart ==
    /\ gpc = "ready" /\ gargs.tool = "wt gen" /\ gargs.input
    /\ IF ~master.exists
          THEN /\ gout' = Exit(1, "master icon not found", FALSE)
               /\ gpc' = "done"
               /\ UNCHANGED <<outDir, gimg, gk>>
       ELSE IF ~master.decodable
          THEN /\ outDir' = [outDir EXCEPT !.exists = TRUE]
               /\ gout' = Exit(1, "error processing master icon", FALSE)
               /\ gpc' = "done"
               /\ UNCHANGED <<gimg, gk>>
       ELSE IF Asked /\ ~Confirmed
          THEN /\ outDir' = [outDir EXCEPT !.exists = TRUE]
               /\ gout' = Exit(1, IF answer = "EOF" THEN "error processing master icon"
                                  ELSE "declined", TRUE)
               /\ gpc' = "done"
               /\ UNCHANGED <<gimg, gk>>
       ELSE /\ outDir' = [outDir EXCEPT !.exists = TRUE]
            /\ gimg' = WtConvert([size |-> master.size, mode |-> master.mode])
            /\ gk' = 1
            /\ gpc' = "writing"
            /\ gout' = [Running EXCEPT !.prompted = Asked]
    /\ UNCHANGED runs
    /\ UNCHANGED <<master, manifest, gargs, answer, generated>>
    /\ UNCHANGED <<vVal, vProc, vArt, vCo>>

\* One turn of the loop over ICON_SIZES.
WtGenWrite ==
    /\ gpc = "writing" /\ gargs.tool = "wt gen" /\ gk <= Len(ICON_SIZES)
    /\ LET size == ICON_SIZES[gk]
       IN  /\ outDir' = [outDir EXCEPT
                            !.files = WriteFile(@, WtFilename(size), WtVariant(gimg, size))]
           /\ generated' = Append(generated, WtFilename(size))
    /\ gk' = gk + 1
    /\ UNCHANGED runs
    /\ UNCHANGED <<master, manifest, gargs, answer, gpc, gimg, gout>>
    /\ UNCHANGED <<vVal, vProc, vArt, vCo>>

WtGenFinish ==
    /\ gpc = "writing" /\ gargs.tool = "wt gen" /\ gk > Len(ICON_SIZES)
    /\ gout' = [gout EXCEPT !.exit = 0]
    /\ gpc' = "done"
    /\ UNCHANGED runs
    /\ UNCHANGED <<master, outDir, manifest, gargs, answer, gimg, gk, generated>>
    /\ UNCHANGED <<vVal, vProc, vArt, vCo>>

\* ------------------------------------------------------------------------
\* Pillow images, as both the processor and the composer use them
\* ------------------------------------------------------------------------
\* An image is its size, its mode and the layers it was made of, back to front.
Layer(layer, param) == [layer |-> layer, param |-> param]
NewImage(mode, size, fill) == [size |-> size, mode |-> mode, stack |-> <<Layer("fill", fill)>>]
ImageError == [size |-> <<0, 0>>, mode |-> "ValueError", stack |-> <<>>]
convert(img, mode) == [img EXCEPT !.mode = mode]

\* Image.alpha_composite(im1, im2): im2 over im1; the faulty variant puts
\* im2 under im1.
alpha_composite_Under(im1, im2) ==
    IF im1.mode = "RGBA" /\ im2.mode = "RGBA" /\ im1.size = im2.size
        THEN [size |-> im1.size, mode |-> "RGBA", stack |-> im2.stack \o im1.stack]
        ELSE ImageError

alpha_composite(im1, im2) ==
    IF im1.mode = "RGBA" /\ im2.mode = "RGBA" /\ im1.size = im2.size
        THEN [size |-> im1.size, mode |-> "RGBA", stack |-> im1.stack \o im2.stack]
        ELSE ImageError

\* ------------------------------------------------------------------------
\* scripts/process_screenshots.py
\* ------------------------------------------------------------------------
DEVICE_SPECS ==
    [iphone_se |-> [name |-> "iPhone SE", screen_size |-> <<375, 667>>,
                    export_size |-> <<750, 1334>>, scale |-> 2],
     iphone_15 |-> [name |-> "iPhone 15", screen_size |-> <<393, 852>>,
                    export_size |-> <<1179, 2556>>, scale |-> 3],
     iphone_15_pro_max |-> [name |-> "iPhone 15 Pro Max", screen_size |-> <<430, 932>>,
                            export_size |-> <<1290, 2796>>, scale |-> 3],
     ipad |-> [name |-> "iPad (10th Gen)", screen_size |-> <<820, 1180>>,
               export_size |-> <<1640, 2360>>, scale |-> 2]]

CAPTIONS ==
    << "Tired of forgetting what you learn?",
       "90% retention with FSRS v5 algorithm",
       "Beautiful Liquid Glass interface",
       "Flashcards, Quiz, and Writing modes",
       "Smart scheduling optimizes study time",
       "Start learning vocabulary today" >>

\* for i in range(1, 7)
Ordinals == 1..6

\* "iPad" in device_name: of the table's names only the iPad's holds it.
HasIPad(device_name) == device_name = "iPad (10th Gen)"

\* The faulty variant returns the caption band alone.
add_caption_BandOnly(img, text, device_name) ==
    [size |-> <<img.size[1], img.size[2] \div 4>>, mode |-> "RGB",
     stack |-> <<Layer("caption", text)>>]

add_caption(img, text, device_name) ==
    LET width == img.size[1]
        height == img.size[2]
        caption_height == height \div 4
        caption_y == height - caption_height
        font_size == IF HasIPad(device_name) THEN 56 ELSE 40
        overlay == [size |-> <<width, height>>, mode |-> "RGBA",
                    stack |-> <<Layer("band " \o ToString(caption_y) \o ".."
                                          \o ToString(height), ToString(font_size)),
                                Layer("caption", text)>>]
        result == alpha_composite(convert(img, "RGBA"), overlay)
    IN  convert(result, "RGB")

\* Image.open of a raw screenshot file.
Open(file, name) == [size |-> file.size, mode |-> file.mode,
                     stack |-> <<Layer("screenshot", name)>>]

\* process_screenshot: what it saves at output_path.
process_screenshot(file, name, caption_text, device_name) ==
    IF caption_text # "" THEN add_caption(Open(file, name), caption_text, device_name)
    ELSE Open(file, name)

\* The three names tried for ordinal i, in order, and the first that exists
\* ("" where the code has None).
InputNames(i) ==
    << ToString(i) \o ".png", ToString(i) \o "_raw.png",
       "screenshot_" \o ToString(i) \o ".png" >>
FindInput(dir, i) ==
    LET names == InputNames(i)
        found == {k \in 1..Len(names) : names[k] \in DOMAIN dir}
    IN  IF found = {} THEN ""
        ELSE names[CHOOSE k \in found : \A j \in found : k <= j]
Probed(dir, i) ==
    LET names == InputNames(i)
        found == {k \in 1..Len(names) : names[k] \in DOMAIN dir}
    IN  {names[k] : k \in {k \in 1..Len(names) : \A j \in found : k <= j}}

Titles ==
    <<"FORGET_LESS", "FSRS_V5", "LIQUID_GLASS", "STUDY_MODES", "SMART_SCHEDULING",
      "START_LEARNING">>
OutputFilename(i, export_size) ==
    ToString(i) \o "_" \o Titles[i] \o "_" \o ToString(export_size[1]) \o "x"
        \o ToString(export_size[2]) \o ".png"

\* continue: on to the next ordinal; the faulty variant leaves the loop.
AfterMissing_Break(i) == 7

AfterMissing(i) == i + 1

\* The processor's inputs: a known device or one that is not in the table,
\* captions or --no-captions, started from the command line or by a call of
\* batch_process.
ProcDevices == DOMAIN DEVICE_SPECS \cup {"iphone_14"}
ProcArgs == [device : ProcDevices, captions : BOOLEAN, via : {"cli", "call"}]

\* Raw files: of the device's export size, of another size, or not an image.
ExactRaw(d) ==
    [decodable |-> TRUE, mode |-> "RGB",
     size |-> IF d \in DOMAIN DEVICE_SPECS THEN DEVICE_SPECS[d].export_size
              ELSE <<1000, 2000>>]
OtherRaw == [decodable |-> TRUE, mode |-> "RGBA", size |-> <<1000, 2000>>]
CorruptRaw == [decodable |-> FALSE, mode |-> "-", size |-> <<0, 0>>]

\* A raw directory: screenshots present for the ordinals of P, all of one
\* kind, under the first or the second name; the one at ordinal c, if any,
\* is not an image and lies under the third name.
RawName(i, kind, c) ==
    IF i = c THEN InputNames(i)[3]
    ELSE IF kind = "exact" THEN InputNames(i)[1] ELSE InputNames(i)[2]
RawDirOf(d, P, kind, c) ==
    [n \in {RawName(i, kind, c) : i \in P} |->
        LET i == CHOOSE i \in P : RawName(i, kind, c) = n
        IN  IF i = c THEN CorruptRaw
            ELSE IF kind = "exact" THEN ExactRaw(d) ELSE OtherRaw]
RawDirs(d) ==
    {RawDirOf(d, P, kind, c) : P \in SUBSET Ordinals, kind \in {"exact", "other"},
                               c \in {0, 3}}

NoIO == [probed |-> {}, read |-> {}]
NoCall == [called |-> FALSE, img |-> ImageError, result |-> ImageError]
ProcRunning == [exit |-> -1, warnings |-> {}, error |-> "-"]

ProcOff ==
    /\ pargs = [device |-> "-", captions |-> FALSE, via |-> "-"]
    /\ rawDir = <<>> /\ procOut = NoOutDir /\ ppc = "off" /\ pidx = 0
    /\ pio = NoIO /\ pcap = NoCall /\ pout = ProcRunning

Known == pargs.device \in DOMAIN DEVICE_SPECS

\* An unknown device: argparse's choices reject it with status 2 before main
\* does anything; batch_process, called directly, exits 1 before any I/O.
ProcUnknownDevice ==
    /\ ppc = "ready" /\ ~Known
    /\ pout' = [pout EXCEPT !.exit = IF pargs.via = "cli" THEN 2 ELSE 1,
                            !.error = "unknown device"]
    /\ ppc' = "done"
    /\ UNCHANGED <<pargs, rawDir, procOut, pidx, pio, pcap>>
    /\ UNCHANGED <<vVal, vGen, vArt, vCo>>

\* batch_process up to its loop: the output directory is created.
ProcStart ==
    /\ ppc = "ready" /\ Known
    /\ procOut' = [procOut EXCEPT !.exists = TRUE]
    /\ pidx' = 1
    /\ ppc' = "loop"
    /\ UNCHANGED <<pargs, rawDir, pio, pcap, pout>>
    /\ UNCHANGED <<vVal, vGen, vArt, vCo>>

\* A turn of the loop that finds none of the three names: warn and continue.
ProcMissing ==
    /\ ppc = "loop" /\ pidx \in Ordinals /\ FindInput(rawDir, pidx) = ""
    /\ pio' = [pio EXCEPT !.probed = @ \cup Probed(rawDir, pidx)]
    /\ pout' = [pout EXCEPT !.warnings = @ \cup {pidx}]
    /\ pidx' = AfterMissing(pidx)
    /\ UNCHANGED <<pargs, rawDir, procOut, ppc, pcap>>
    /\ UNCHANGED <<vVal, vGen, vArt, vCo>>

\* A turn of the loop that finds a screenshot: process_screenshot saves it
\* under the output name.
ProcScreenshot ==
    /\ ppc = "loop" /\ pidx \in Ordinals /\ FindInput(rawDir, pidx) # ""
    /\ LET name == FindInput(rawDir, pidx)
           file == rawDir[name]
           specs == DEVICE_SPECS[pargs.device]
           caption_text == IF pargs.captions THEN CAPTIONS[pidx] ELSE ""
           img == process_screenshot(file, name, caption_text, specs.name)
       IN  /\ file.decodable
           /\ pio' = [probed |-> pio.probed \cup Probed(rawDir, pidx),
                      read |-> pio.read \cup {name}]
           /\ pcap' = IF pargs.captions
                         THEN [called |-> TRUE, img |-> Open(file, name), result |-> img]
                         ELSE pcap
           /\ procOut' = [procOut EXCEPT
                             !.files = WriteFile(@, OutputFilename(pidx, specs.export_size),
                                                 img)]
    /\ pidx' = pidx + 1
    /\ UNCHANGED <<pargs, rawDir, ppc, pout>>
    /\ UNCHANGED <<vVal, vGen, vArt, vCo>>

\* A turn of the loop whose file Pillow cannot open: the exception is not
\* caught, the run ends with a traceback and status 1.
ProcUnreadable ==
    /\ ppc = "loop" /\ pidx \in Ordinals /\ FindInput(rawDir, pidx) # ""
    /\ ~rawDir[FindInput(rawDir, pidx)].decodable
    /\ pio' = [probed |-> pio.probed \cup Probed(rawDir, pidx),
               read |-> pio.read \cup {FindInput(rawDir, pidx)}]
    /\ pout' = [pout EXCEPT !.exit = 1, !.error = "UnidentifiedImageError"]
    /\ ppc' = "done"
    /\ UNCHANGED <<pargs, rawDir, procOut, pidx, pcap>>
    /\ UNCHANGED <<vVal, vGen, vArt, vCo>>

\* After the loop the run reports and ends with status 0.
ProcFinish ==
    /\ ppc = "loop" /\ pidx \notin Ordinals
    /\ pout' = [pout EXCEPT !.exit = 0]
    /\ ppc' = "done"
    /\ UNCHANGED <<pargs, rawDir, procOut, pidx, pio, pcap>>
    /\ UNCHANGED <<vVal, vGen, vArt, vCo>>

\* ------------------------------------------------------------------------
\* scripts/create-glass-morphism-icon.py
\* ------------------------------------------------------------------------
NoLayers == <<>>
ArtOff ==
    /\ cmode = "-" /\ rng = 0 /\ seeded = 0 /\ cpc = "off"
    /\ layers = NoLayers /\ canvas = ImageError /\ saved = <<>>

\* size = (1024, 1024)
CanvasSize == <<1024, 1024>>
Modes == {"light", "dark"}
bg_color(mode) == IF mode = "light" THEN "255,255,255" ELSE "0,0,0"
glass_opacity(mode) == IF mode = "light" THEN 25 ELSE 30
border_opacity(mode) == IF mode = "light" THEN 40 ELSE 50

\* np.random.randint draws from numpy's global generator: the noise is a
\* function of the generator's state, and the draw moves the state on.
\* alpha = int(255 * opacity / 100)
create_noise_texture(width, height, opacity, state) ==
    [size |-> <<width, height>>, mode |-> "RGBA",
     stack |-> <<Layer("noise", ToString(state) \o " alpha "
                                    \o ToString((255 * opacity) \div 100))>>]
Advance(state) == state + 10

create_gradient_color(size, color_start, color_middle, color_end) ==
    [size |-> size, mode |-> "RGB",
     stack |-> <<Layer("gradient", color_start \o " " \o color_middle \o " " \o color_end)>>]

\* The gradient put on a transparent canvas, then cut to the L-shaped mask.
create_fluid_L(size, gradient_img) ==
    LET l_final == alpha_composite(NewImage("RGBA", size, "0,0,0,0"),
                                   convert(gradient_img, "RGBA"))
    IN  IF l_final = ImageError THEN ImageError
        ELSE [size |-> size, mode |-> "RGBA",
              stack |-> <<Layer("glyph", l_final.stack[Len(l_final.stack)].param)>>]

create_glass_card(size, blur_radius, opacity, border) ==
    [size |-> size, mode |-> "RGBA",
     stack |-> <<Layer("glass", ToString((255 * opacity) \div 100) \o " border "
                                    \o ToString((255 * border) \div 100) \o " blur "
                                    \o ToString(blur_radius))>>]

\* base.paste(img, mask=img.split()[-1]): img over base, in base's mode.
paste(base, img) ==
    IF base.size = img.size
        THEN [size |-> base.size, mode |-> base.mode, stack |-> base.stack \o img.stack]
        ELSE ImageError

\* The generator's state when create_app_icon is entered: what the caller
\* seeded it with (np.random.seed), or else what a new process draws from the
\* system (e), or what the same process left (state). The faulty variant
\* takes the system's in every case.
GeneratorState_SeedIgnored(seed, fresh, e, state) == e

GeneratorState(seed, fresh, e, state) ==
    IF seed # 0 THEN seed ELSE IF fresh THEN e ELSE state

\* Seeds a caller may fix (0: none), and states a new process may start in.
Seeds == {1, 2}
Entropy == {7, 8}

\* create_app_icon(mode) is entered.
ArtStart(mode, seed, fresh, e) ==
    /\ cpc = "idle" /\ Len(saved) < MaxIcons
    /\ cmode' = mode /\ seeded' = seed
    /\ rng' = GeneratorState(seed, fresh, e, rng)
    /\ cpc' = "layers"
    /\ UNCHANGED <<layers, canvas, saved>>
    /\ UNCHANGED <<vVal, vGen, vProc, vCo>>

\* The four layers are built; the noise draw moves the generator on.
ArtLayers ==
    /\ cpc = "layers"
    /\ layers' =
         [background_rgba |-> convert(NewImage("RGB", CanvasSize, bg_color(cmode)), "RGBA"),
          glass_card |-> create_glass_card(CanvasSize, 40, glass_opacity(cmode),
                                           border_opacity(cmode)),
          fluid_l |-> create_fluid_L(CanvasSize,
                         create_gradient_color(CanvasSize, "99,102,241", "236,72,153",
                                               "139,92,246")),
          noise |-> create_noise_texture(CanvasSize[1], CanvasSize[2], 5, rng)]
    /\ rng' = Advance(rng)
    /\ cpc' = "background"
    /\ UNCHANGED <<cmode, seeded, canvas, saved>>
    /\ UNCHANGED <<vVal, vGen, vProc, vCo>>

\* 1. icon = background_rgba.copy()
ArtBackground ==
    /\ cpc = "background"
    /\ canvas' = layers.background_rgba
    /\ cpc' = "glass"
    /\ UNCHANGED <<cmode, rng, seeded, layers, saved>>
    /\ UNCHANGED <<vVal, vGen, vProc, vCo>>

\* 2. icon = Image.alpha_composite(icon, glass_card)
ArtGlass ==
    /\ cpc = "glass"
    /\ canvas' = alpha_composite(canvas, layers.glass_card)
    /\ cpc' = "glyph"
    /\ UNCHANGED <<cmode, rng, seeded, layers, saved>>
    /\ UNCHANGED <<vVal, vGen, vProc, vCo>>

\* 3. icon = Image.alpha_composite(icon, fluid_l)
ArtGlyph ==
    /\ cpc = "glyph"
    /\ canvas' = alpha_composite(canvas, layers.fluid_l)
    /\ cpc' = "noise"
    /\ UNCHANGED <<cmode, rng, seeded, layers, saved>>
    /\ UNCHANGED <<vVal, vGen, vProc, vCo>>

\* 4. icon = Image.alpha_composite(icon, noise)
ArtNoise ==
    /\ cpc = "noise"
    /\ canvas' = alpha_composite(canvas, layers.noise)
    /\ cpc' = "flatten"
    /\ UNCHANGED <<cmode, rng, seeded, layers, saved>>
    /\ UNCHANGED <<vVal, vGen, vProc, vCo>>

\* icon_rgb = Image.new('RGB', size, bg_color); icon_rgb.paste(icon, mask)
ArtFlatten ==
    /\ cpc = "flatten"
    /\ canvas' = paste(NewImage("RGB", CanvasSize, bg_color(cmode)), canvas)
    /\ cpc' = "save"
    /\ UNCHANGED <<cmode, rng, seeded, layers, saved>>
    /\ UNCHANGED <<vVal, vGen, vProc, vCo>>

\* icon_rgb.save(output_path, 'PNG')
ArtSave ==
    /\ cpc = "save"
    /\ saved' = Append(saved, [mode |-> cmode, seed |-> seeded, image |-> canvas])
    /\ cpc' = "idle"
    /\ UNCHANGED <<cmode, rng, seeded, layers, canvas>>
    /\ UNCHANGED <<vVal, vGen, vProc, vCo>>

\* ------------------------------------------------------------------------
\* Two invocations at once: generate_variants or batch_process, each a
\* process of its own, sharing nothing but the file system
\* ------------------------------------------------------------------------
Invocations == {1, 2}
DirNames == {"out/a", "out/b"}

\* An invocation: which pipeline, its output directory, its --suffix or
\* device, and the image it reads (the master, or each raw screenshot).
Variants(target, suffix, src) ==
    [kind |-> "variants", target |-> target, suffix |-> suffix, device |-> "-",
     src |-> src, pc |-> "ready", k |-> 0]
Screenshots(target, device, src) ==
    [kind |-> "screenshots", target |-> target, suffix |-> "", device |-> device,
     src |-> src, pc |-> "ready", k |-> 0]

\* The first invocation reads an RGB master or raw files of the export size,
\* the second an RGBA master or raw files of 1000x2000.
InvocationsOf(p) ==
    {Variants(t, sf, [size |-> <<1024, 1024>>, mode |-> IF p = 1 THEN "RGB" ELSE "RGBA"]) :
        t \in DirNames, sf \in {"", "-dark"}}
    \cup {Screenshots(t, d, IF p = 1 THEN ExactRaw(d) ELSE OtherRaw) :
            t \in DirNames, d \in {"iphone_se", "ipad"}}

\* os.path.join(output_dir, filename): the directory an invocation writes
\* into is its own; the faulty variant writes into one directory for all.
TargetOf_Shared(i) == "out/a"

TargetOf(i) == i.target

\* The writes of an invocation: how many, and the k-th's name and image.
Writes(i) == IF i.kind = "variants" THEN Len(IOS_ICON_SIZES) ELSE 6
WriteName(i, k) ==
    IF i.kind = "variants" THEN SuffixedFilename(IOS_ICON_SIZES[k], i.suffix)
    ELSE OutputFilename(k, DEVICE_SPECS[i.device].export_size)
WriteImage(i, k) ==
    IF i.kind = "variants" THEN Resize(i.src, IOS_ICON_SIZES[k])
    ELSE process_screenshot(i.src, InputNames(k)[1], CAPTIONS[k],
                            DEVICE_SPECS[i.device].name)

CoOff ==
    /\ fs = [t \in DirNames |-> NoOutDir]
    /\ inv = [p \in Invocations |-> Variants("-", "", NoImage)]

\* os.makedirs(output_dir, exist_ok=True)
CoStart(p) ==
    /\ inv[p].pc = "ready"
    /\ fs' = [fs EXCEPT ![TargetOf(inv[p])].exists = TRUE]
    /\ inv' = [inv EXCEPT ![p].pc = "writing", ![p].k = 1]
    /\ UNCHANGED <<vVal, vGen, vProc, vArt>>

\* One turn of the invocation's loop: one file saved.
CoWrite(p) ==
    /\ inv[p].pc = "writing" /\ inv[p].k <= Writes(inv[p])
    /\ fs' = [fs EXCEPT ![TargetOf(inv[p])].files =
                 WriteFile(@, WriteName(inv[p], inv[p].k), WriteImage(inv[p], inv[p].k))]
    /\ inv' = [inv EXCEPT ![p].k = @ + 1]
    /\ UNCHANGED <<vVal, vGen, vProc, vArt>>

CoFinish(p) ==
    /\ inv[p].pc = "writing" /\ inv[p].k > Writes(inv[p])
    /\ inv' = [inv EXCEPT ![p].pc = "done"]
    /\ UNCHANGED fs
    /\ UNCHANGED <<vVal, vGen, vProc, vArt>>

\* ------------------------------------------------------------------------
\* Specifications
\* ------------------------------------------------------------------------
vars == <<vVal, vGen, vProc, vArt, vCo>>

\* The validator on every icon and video, with the screenshots tree complete,
\* short or absent.
InitAssets ==
    /\ icon \in IconFiles
    /\ altIcon \in {AbsentIcon, GoodIcon}
    /\ video \in VideoFiles
    /\ exports \in BOOLEAN
    /\ others \in {<<>>} \cup {<<b>> : b \in VideoSizes}
    /\ (video.exists \/ others # <<>>) => exports
    /\ shots \in {GoodTree, ShortTree, NoTree("missing")}
    /\ env \in Envs
    /\ edits = 0 /\ lastEdit = NoEdit /\ vout = NoRun
    /\ GenOff /\ ProcOff /\ ArtOff /\ CoOff

NextAssets ==
    \/ MainNoPillow
    \/ MainAll
    \/ MainIcon
    \/ MainScreenshots
    \/ \E raw \in VideoExts : MainVideo(raw)
    \/ MainNoArgs
    \/ WtMain

SpecAssets == InitAssets /\ [][NextAssets]_vars

\* The screenshot check on edited screenshots trees.
InitShots ==
    /\ icon = GoodIcon /\ altIcon = AbsentIcon
    /\ video = [exists |-> TRUE, bytes |-> 50 * MB] /\ exports = TRUE /\ others = <<>>
    /\ shots \in TreeTemplates \cup {NoTree("missing"), NoTree("file")}
    /\ env = [has_pil |-> TRUE, darwin |-> FALSE]
    /\ edits = 0 /\ lastEdit = NoEdit /\ vout = NoRun
    /\ GenOff /\ ProcOff /\ ArtOff /\ CoOff

NextShots ==
    \/ \E d \in Devices : \E f \in FileKinds(d), i \in 1..(MaxFiles + 1) : AddFile(d, f, i)
    \/ \E d \in Devices, i \in 1..MaxFiles : RemoveFile(d, i)
    \/ MainScreenshots
    \/ WtMain

SpecShots == InitShots /\ [][NextShots]_vars

\* One run of a generator, on every master, command line and answer.
InitGen ==
    /\ master \in Masters
    /\ outDir \in {NoOutDir, EmptyOutDir, StaleOutDir}
    /\ manifest = NoManifest
    /\ gargs \in GenArgs
    /\ answer \in Answers
    /\ gpc = "ready" /\ gimg = NoImage /\ gk = 0 /\ generated = <<>> /\ gout = Running
    /\ runs = <<>>
    /\ ValOff /\ ProcOff /\ ArtOff /\ CoOff

NextGen ==
    \/ GenUpdateContents
    \/ GenNoInput
    \/ GenStart
    \/ GenWrite
    \/ GenFinish
    \/ WtGenUsage
    \/ WtGenStart
    \/ WtGenWrite
    \/ WtGenFinish

SpecGen == InitGen /\ [][NextGen]_vars

\* A generating command line is run again after it was killed or had ended.
RerunArgs ==
    [tool : {"gen"}, input : {TRUE}, suffix : Suffixes, validate : BOOLEAN,
     update : {FALSE}]

InitRerun ==
    /\ master \in {m \in Masters : m.decodable}
    /\ outDir \in {NoOutDir, EmptyOutDir}
    /\ manifest = NoManifest
    /\ gargs \in RerunArgs
    /\ answer = "y"
    /\ gpc = "ready" /\ gimg = NoImage /\ gk = 0 /\ generated = <<>> /\ gout = Running
    /\ runs = <<>>
    /\ ValOff /\ ProcOff /\ ArtOff /\ CoOff

NextRerun ==
    \/ GenStart
    \/ GenWrite
    \/ GenCrash
    \/ GenFinish
    \/ GenRunAgain(gargs)

SpecRerun == InitRerun /\ [][NextRerun]_vars

\* Generating runs with any suffix and --update-contents-json runs, in any
\* order, on one directory.
ManifestArgs ==
    [tool : {"gen"}, input : {TRUE}, suffix : Suffixes, validate : {FALSE},
     update : {FALSE}]
    \cup [tool : {"gen"}, input : {FALSE}, suffix : {""}, validate : {FALSE},
          update : {TRUE}]

InitManifest ==
    /\ master \in {m \in Masters : m.decodable /\ m.size = <<1024, 1024>>}
    /\ outDir \in {NoOutDir, EmptyOutDir}
    /\ manifest = NoManifest
    /\ gargs \in ManifestArgs
    /\ answer = "n"
    /\ gpc = "ready" /\ gimg = NoImage /\ gk = 0 /\ generated = <<>> /\ gout = Running
    /\ runs = <<>>
    /\ ValOff /\ ProcOff /\ ArtOff /\ CoOff

NextManifest ==
    \/ GenStart
    \/ GenWrite
    \/ GenFinish
    \/ GenUpdateContents
    \/ \E args \in ManifestArgs : GenRunAgain(args)

SpecManifest == InitManifest /\ [][NextManifest]_vars

\* One run of the screenshot processor, on every device, raw directory and
\* captions setting.
InitProc ==
    /\ pargs \in ProcArgs
    /\ rawDir \in RawDirs(pargs.device)
    /\ procOut \in {NoOutDir, EmptyOutDir}
    /\ ppc = "ready" /\ pidx = 0 /\ pio = NoIO /\ pcap = NoCall /\ pout = ProcRunning
    /\ ValOff /\ GenOff /\ ArtOff /\ CoOff

NextProc ==
    \/ ProcUnknownDevice
    \/ ProcStart
    \/ ProcMissing
    \/ ProcScreenshot
    \/ ProcUnreadable
    \/ ProcFinish

SpecProc == InitProc /\ [][NextProc]_vars

\* Calls of create_app_icon, one after the other, in either mode, in the same
\* process or a new one, the generator seeded by the caller or not.
InitArt ==
    /\ cmode = "-" /\ rng \in Entropy /\ seeded = 0 /\ cpc = "idle"
    /\ layers = NoLayers /\ canvas = ImageError /\ saved = <<>>
    /\ ValOff /\ GenOff /\ ProcOff /\ CoOff

NextArt ==
    \/ \E mode \in Modes, seed \in Seeds \cup {0}, fresh \in BOOLEAN, e \in Entropy :
          ArtStart(mode, seed, fresh, e)
    \/ ArtLayers
    \/ ArtBackground
    \/ ArtGlass
    \/ ArtGlyph
    \/ ArtNoise
    \/ ArtFlatten
    \/ ArtSave

SpecArt == InitArt /\ [][NextArt]_vars

\* Two invocations started together, on the same directory or on two.
InitCo ==
    /\ fs = [t \in DirNames |-> NoOutDir]
    /\ inv \in [Invocations -> UNION {InvocationsOf(p) : p \in Invocations}]
    /\ \A p \in Invocations : inv[p] \in InvocationsOf(p)
    /\ ValOff /\ GenOff /\ ProcOff /\ ArtOff

NextCo ==
    \/ \E p \in Invocations : CoStart(p)
    \/ \E p \in Invocations : CoWrite(p)
    \/ \E p \in Invocations : CoFinish(p)

SpecCo == InitCo /\ [][NextCo]_vars

\* ------------------------------------------------------------------------
\* Claims on the validator
\* ------------------------------------------------------------------------
\* The three rules of the icon check, on a file.
IconConforms(f) ==
    /\ f.exists
    /\ f.size = <<1024, 1024>>
    /\ f.format = "PNG"
    /\ 2 * f.bytes <= MB

\* The file the worktree's validate_app_icon inspects.
WtIconFile == IF icon.exists THEN icon ELSE altIcon

\* C1 (as claimed): with Pillow installed and an icon file it can decode, the
\* icon check passes exactly when the file is 1024x1024, is a PNG and is at most
\* 0.5 MB, and the run exits 1 when it fails; in validate_icon and in the
\* worktree's validate_app_icon alike.
C1_IconPassIffAllThreeRules ==
    /\ vout.tool = "validate --icon" =>
          /\ vout.icon.passed <=> IconConforms(icon)
          /\ vout.exit = (IF IconConforms(icon) THEN 0 ELSE 1)
    /\ (vout.tool = "wt validate" /\ env.has_pil /\ WtIconFile.decodable) =>
          /\ vout.icon.passed <=> IconConforms(WtIconFile)
          /\ ~IconConforms(WtIconFile) => vout.exit = 1

\* C1, the part that holds: validate_icon of scripts/ alone.
C1_MainIconPassIffAllThreeRules ==
    vout.tool = "validate --icon" =>
        /\ vout.icon.passed <=> IconConforms(icon)
        /\ vout.exit = (IF IconConforms(icon) THEN 0 ELSE 1)
        /\ (icon.exists /\ icon.decodable /\ icon.size # <<1024, 1024>>)
               => Msg("wrong_size") \in Lines(vout.icon.printed)

\* The messages that give one screenshot file's dimension status.
DimensionStatus == {"size_ok", "wrong_size", "file_error"}
PngCount(d) == Len(SelectSeq(shots.devs[d].files, IsPng))
StatusLines(printed, d) ==
    {m \in Lines(printed) : m.dev = d /\ m.what \in DimensionStatus}

\* C2 (as claimed): a device directory with fewer than 6 screenshots is
\* reported as a count failure, and every screenshot present in it still has
\* its dimension status reported.
C2_ShortCountStillChecksEveryFile ==
    (vout.tool = "validate --screenshots" /\ shots.root = "dir") =>
        \A d \in Devices :
            (shots.devs[d].exists /\ PngCount(d) < SCREENSHOT_SPECS[d].count) =>
                /\ CountMsg("count_short", d, PngCount(d)) \in Lines(vout.screenshots.printed)
                /\ ~vout.screenshots.passed
                /\ \A i \in 1..PngCount(d) :
                      \E m \in StatusLines(vout.screenshots.printed, d) : m.file = i

\* C2 (amended): a short count is reported as a failure with the count found
\* and that device's files are not checked; the loop goes on to the next
\* device, and a directory that holds the required count has every one of its
\* files reported, whatever the earlier files and devices gave. The worktree's
\* validator reports a short count without failing and checks the first file.
C2_ShortCountSkipsDimensionChecks ==
    /\ (vout.tool = "validate --screenshots" /\ shots.root = "dir") =>
          \A d \in Devices :
              /\ (shots.devs[d].exists /\ PngCount(d) < SCREENSHOT_SPECS[d].count) =>
                    /\ CountMsg("count_short", d, PngCount(d))
                           \in Lines(vout.screenshots.printed)
                    /\ ~vout.screenshots.passed
                    /\ StatusLines(vout.screenshots.printed, d) = {}
              /\ (shots.devs[d].exists /\ PngCount(d) >= SCREENSHOT_SPECS[d].count) =>
                    \A i \in 1..PngCount(d) :
                        \E m \in StatusLines(vout.screenshots.printed, d) : m.file = i
    /\ (vout.tool = "wt validate" /\ shots.root = "dir") =>
          \A d \in Devices :
              (shots.devs[d].exists /\ PngCount(d) > 0
                    /\ PngCount(d) < EXPECTED_SCREENSHOTS[d].count) =>
                  /\ CountMsg("incomplete", d, PngCount(d))
                         \in Lines(vout.screenshots.printed)
                  /\ \A m \in StatusLines(vout.screenshots.printed, d) : m.file = 1

\* C2's case: a run on a tree where a device directory holds 4 of the 6, while
\* a later device's directory is complete and is reported file by file.
C2_Witness ==
    /\ vout.tool = "validate --screenshots" /\ shots.root = "dir"
    /\ shots.devs["iphone_se"].exists /\ PngCount("iphone_se") = 4
    /\ CountMsg("count_short", "iphone_se", 4) \in Lines(vout.screenshots.printed)
    /\ PngCount("ipad") = 6
    /\ Cardinality(StatusLines(vout.screenshots.printed, "ipad")) = 6

\* The step adds (removes) a file to (from) a device directory.
Added == shots' # shots /\ lastEdit'.op = "add"
Removed == shots' # shots /\ lastEdit'.op = "remove"

\* C3: adding one more PNG of exactly the device's required resolution to a
\* device directory never turns a passing validate_screenshots into a failing
\* one.
C3_AddingGoodFileKeepsPass ==
    [][(Added /\ lastEdit'.file = Good(lastEdit'.dev)
            /\ validate_screenshots(shots).passed)
        => validate_screenshots(shots').passed]_vars

\* C3's case: a correctly sized PNG was added to a complete directory of a
\* passing tree, and the validator then ran and passed.
C3_Witness ==
    /\ lastEdit.op = "add" /\ lastEdit.file = Good(lastEdit.dev)
    /\ PngCount(lastEdit.dev) > SCREENSHOT_SPECS[lastEdit.dev].count
    /\ vout.tool = "validate --screenshots" /\ vout.screenshots.passed
    /\ vout.exit = 0

\* C4 (as claimed): removing a screenshot file from a device directory never
\* turns a failing screenshot check into a passing one.
C4_RemovingAnyFileKeepsFail ==
    [][(Removed /\ ~validate_screenshots(shots).passed)
        => ~validate_screenshots(shots').passed]_vars

\* C4 (amended): removing a file that has the device's required resolution
\* never turns a failing screenshot check into a passing one (in the worktree's
\* validator: the resolution of its own table).
C4_RemovingGoodFileKeepsFail ==
    [][Removed =>
        /\ (lastEdit'.file = Good(lastEdit'.dev) /\ ~validate_screenshots(shots).passed)
               => ~validate_screenshots(shots').passed
        /\ (lastEdit'.file = WtGood(lastEdit'.dev)
                /\ ~wt_validate_screenshots(shots, env).passed)
               => ~wt_validate_screenshots(shots', env).passed]_vars

\* C4's case: a correctly sized file was removed from a failing tree, and the
\* validator then ran and still failed on the wrongly sized file left behind.
C4_Witness ==
    /\ lastEdit.op = "remove" /\ lastEdit.file = Good(lastEdit.dev)
    /\ vout.tool = "validate --screenshots" /\ ~vout.screenshots.passed
    /\ vout.exit = 1
    /\ \E m \in Lines(vout.screenshots.printed) : m.what = "wrong_size"

\* C5: the --all run (and the worktree's main) exits 0 exactly when the icon,
\* screenshots and video checks all passed, and 1 otherwise; the summary lists
\* all three outcomes, each the outcome of its own check, also after a failure.
C5_OverallIsAndOfOutcomes ==
    /\ vout.tool = "validate --all" =>
          /\ Len(vout.summary) = 3
          /\ vout.summary[1].passed = (icon.exists /\ validate_icon(icon).passed)
          /\ vout.summary[2].passed = validate_screenshots(shots).passed
          /\ vout.summary[3].passed = (video.exists /\ validate_video(video, ".m4v").passed)
          /\ vout.exit = (IF \A i \in 1..3 : vout.summary[i].passed THEN 0 ELSE 1)
    /\ vout.tool = "wt validate" =>
          /\ Len(vout.summary) = 3
          /\ vout.summary[1].passed = wt_validate_app_icon(icon, altIcon, env).passed
          /\ vout.summary[2].passed = wt_validate_screenshots(shots, env).passed
          /\ vout.summary[3].passed = wt_validate_video(video, exports, others).passed
          /\ vout.exit = (IF \A i \in 1..3 : vout.summary[i].passed THEN 0 ELSE 1)

\* C5's case: the icon check failed, the two later checks were still made and
\* passed, and the run exited 1.
C5_Witness ==
    /\ vout.tool = "validate --all"
    /\ ~vout.summary[1].passed /\ vout.summary[2].passed /\ vout.summary[3].passed
    /\ vout.screenshots.printed # <<>> /\ vout.video.printed # <<>>
    /\ vout.exit = 1

\* C7 (as claimed): in validate_icon an alpha channel never changes the
\* verdict, and an icon that carries one and passes has the warning printed.
C7_AlphaAlwaysWarned ==
    vout.tool = "validate --icon" =>
        /\ vout.icon.passed <=> IconConforms(icon)
        /\ (vout.icon.passed /\ icon.mode \in {"RGBA", "LA"})
               => Msg("alpha_channel") \in Lines(vout.icon.printed)

\* C8 (as claimed): the video check passes exactly when the video file exists
\* and is at most 50 MB, whatever its extension.
C8_VideoPassIffExistsAndSmall ==
    /\ vout.tool = "validate --video" =>
          (vout.video.passed <=> (video.exists /\ video.bytes <= 50 * MB))
    /\ vout.tool = "wt validate" =>
          (vout.video.passed <=> (video.exists /\ video.bytes <= 50 * MB))

\* The video file the worktree's validate_video inspects, if it finds one.
WtVideoFound == video.exists \/ (exports /\ others # <<>>)
WtVideoBytes == IF video.exists THEN video.bytes ELSE others[1]

\* C8 (amended): validate_video of scripts/ passes exactly when the file exists
\* and is at most 50 MB, whatever its extension, and a pass says that the full
\* validation was not made; the worktree's validate_video passes exactly when
\* it finds no video file or the one it finds is at most 50 MB.
C8_VideoVerdict ==
    /\ vout.tool = "validate --video" =>
          /\ vout.video.passed <=> (video.exists /\ video.bytes <= 50 * MB)
          /\ vout.video.passed
                => Msg("full_validation_requires_ffmpeg") \in Lines(vout.video.printed)
          /\ vout.exit = (IF vout.video.passed THEN 0 ELSE 1)
    /\ vout.tool = "wt validate" =>
          /\ vout.video.passed <=> (~WtVideoFound \/ WtVideoBytes <= 50 * MB)
          /\ (vout.video.passed /\ WtVideoFound)
                => Msg("duration_not_checked") \in Lines(vout.video.printed)

\* C8's case: a video of 50 MB under a wrong extension passes with a warning.
C8_Witness ==
    /\ vout.tool = "validate --video" /\ vout.ext = ".mp4"
    /\ video.exists /\ video.bytes = 50 * MB
    /\ vout.video.passed /\ vout.exit = 0
    /\ Msg("extension_warning") \in Lines(vout.video.printed)

\* ------------------------------------------------------------------------
\* Claims on the icon variant generators
\* ------------------------------------------------------------------------
\* A generating run (not --update-contents-json) that has ended.
GenRunEnded == gpc = "done" /\ gargs.tool \in {"gen", "wt gen"} /\ ~gargs.update

\* A generating run from a valid 1024x1024 master that reached its end.
ValidMaster == master.exists /\ master.decodable /\ master.size = <<1024, 1024>>
GeneratedFromValidMaster == GenRunEnded /\ ValidMaster /\ gout.exit = 0

\* The names a completed run of the tool writes, in table order.
TableNames ==
    IF gargs.tool = "gen"
        THEN [i \in 1..Len(IOS_ICON_SIZES) |->
                 SuffixedFilename(IOS_ICON_SIZES[i], gargs.suffix)]
        ELSE [i \in 1..Len(ICON_SIZES) |-> WtFilename(ICON_SIZES[i])]
TableSizes ==
    IF gargs.tool = "gen"
        THEN [i \in 1..Len(IOS_ICON_SIZES) |-> IOS_ICON_SIZES[i].export_size]
        ELSE ICON_SIZES

\* C6: a generator's exit status is 0 only on full success and 1 on any
\* validation failure or fatal input error: a run with --validate whose
\* validate_icons post-check fails exits 1, and so does a run whose input is
\* missing, unreadable or declined at the prompt.
C6_ExitStatusZeroOnlyOnFullSuccess ==
    gpc = "done" =>
        /\ gout.exit \in {0, 1}
        /\ gout.exit = 0 <=> (gout.error = "-" /\ gout.validated # "fail")

\* C9: for every entry of a generator's size table, a run from a valid
\* 1024x1024 master writes one file for the entry, whose image is exactly
\* S x S with S the entry's export size; as many files are written as the
\* table has entries, and no two entries write to the same name.
C9_OneSquareFilePerTableEntry ==
    GeneratedFromValidMaster =>
        /\ Len(generated) = Len(TableNames)
        /\ \A i \in 1..Len(TableNames) :
              /\ generated[i] = TableNames[i]
              /\ Present(outDir.files, TableNames[i])
              /\ outDir.files[TableNames[i]].size = <<TableSizes[i], TableSizes[i]>>
        /\ \A i, j \in 1..Len(generated) : i # j => generated[i] # generated[j]

\* A dark-suffixed run of scripts/ that has written all its entries, the
\* 64@2x entry (export size 128) among them.
C9_Witness ==
    /\ GeneratedFromValidMaster
    /\ gargs.tool = "gen" /\ gargs.suffix = "-dark"
    /\ Len(generated) = Len(IOS_ICON_SIZES)
    /\ Present(outDir.files, "app-icon-64@2x-dark.png")
    /\ outDir.files["app-icon-64@2x-dark.png"].size = <<128, 128>>

\* The pixel sizes of the scenario "generate variants".
NominalSizes == {16, 29, 32, 40, 58, 60, 76, 80, 87, 120, 152, 167, 180, 1024}

\* The sizes of the files the ended run wrote.
WrittenSizes == {outDir.files[generated[i]].size : i \in 1..Len(generated)}

\* C10: a run from a 1024x1024 opaque RGB master produces files for exactly
\* the pixel sizes 16, 29, 32, 40, 58, 60, 76, 80, 87, 120, 152, 167, 180 and
\* 1024: every one of them has a file after the run, each square at its size.
C10_FilesForExactlyTheNominalSizes ==
    GeneratedFromValidMaster /\ master.mode = "RGB" =>
        WrittenSizes = {<<s, s>> : s \in NominalSizes}

\* A decodable master of another size than 1024x1024, given to a generator.
NonConformingMaster ==
    gargs.input /\ master.exists /\ master.decodable /\ master.size # <<1024, 1024>>

\* What the ended run wrote: every variant of its table, or nothing at all
\* (the directory holds at most what it held before the run).
AllVariantsWritten ==
    /\ Len(generated) = Len(TableNames)
    /\ \A i \in 1..Len(TableNames) : Present(outDir.files, TableNames[i])
NoVariantWritten ==
    /\ generated = <<>> /\ gk = 0
    /\ outDir.files \in {NoFiles, StaleOutDir.files}

\* C11: a decodable master that is not 1024x1024 is no hard failure: the run
\* warns and asks; on the answer y it proceeds and writes every variant, and
\* on any other answer it exits 1 having written no variant file.
C11_OnlyAnswerYProceeds ==
    GenRunEnded /\ NonConformingMaster =>
        /\ gout.prompted
        /\ IF answer = "y"
              THEN gout.exit = 0 /\ AllVariantsWritten
              ELSE gout.exit = 1 /\ NoVariantWritten

\* C11 (amended): the answer is compared without regard to case: on y or Y
\* the run proceeds and writes every variant; on any other answer, or none,
\* it exits 1 having written no variant file.
C11_AnswerYInEitherCaseProceeds ==
    GenRunEnded /\ NonConformingMaster =>
        /\ gout.prompted
        /\ IF answer \in {"y", "Y"}
              THEN gout.exit = 0 /\ AllVariantsWritten
              ELSE gout.exit = 1 /\ NoVariantWritten

\* A 512x512 master confirmed with Y, all fourteen variants written.
C11_Witness ==
    /\ GenRunEnded /\ NonConformingMaster /\ answer = "Y"
    /\ gout.prompted /\ gout.exit = 0
    /\ Len(generated) = Len(TableNames)

\* C12: on a fatal input error (master missing or not decodable) the run
\* aborts with a non-zero exit status and attempts no partial output: it
\* writes no variant file and neither creates nor modifies the output
\* directory.
C12_FatalInputLeavesOutputUntouched ==
    [][(/\ gpc = "ready" /\ gargs.tool \in {"gen", "wt gen"}
        /\ gargs.input /\ ~gargs.update
        /\ (~master.exists \/ ~master.decodable))
       => (/\ gpc' = "done" /\ gout'.exit # 0
           /\ generated' = <<>>
           /\ outDir' = outDir)]_vars

\* ------------------------------------------------------------------------
\* Claims on re-running the generator and on the manifest
\* ------------------------------------------------------------------------
\* The directory a single uninterrupted run leaves, started on no directory
\* or an empty one: the table's names under the suffix, each file the master
\* resized to its entry's export size.
SingleRun(img, suffix) ==
    LET names == {SuffixedFilename(IOS_ICON_SIZES[i], suffix) :
                     i \in 1..Len(IOS_ICON_SIZES)}
        EntryOf(n) == CHOOSE i \in 1..Len(IOS_ICON_SIZES) :
                         SuffixedFilename(IOS_ICON_SIZES[i], suffix) = n
    IN  [exists |-> TRUE,
         files |-> [n \in names |-> Resize(img, IOS_ICON_SIZES[EntryOf(n)])]]

\* C13: variant generation is idempotent and safely re-runnable: started on
\* the directory left by any prefix of a previous run with the same arguments
\* (empty, killed after k of the n writes, or completed), a run that reaches
\* its end leaves the directory with the same files and contents as a single
\* uninterrupted run.
C13_RerunLeavesWhatOneRunLeaves ==
    gpc = "done" /\ gout.exit = 0 =>
        outDir = SingleRun([size |-> master.size, mode |-> master.mode], gargs.suffix)

\* A run killed in its loop, the same command line run again to its end.
C13_Witness ==
    /\ gpc = "done" /\ gout.exit = 0
    /\ Len(runs) >= 1 /\ runs[1].exit = 137
    /\ Len(generated) = Len(IOS_ICON_SIZES)

\* The names generate_variants writes, under any suffix.
VariantNames ==
    {SuffixedFilename(IOS_ICON_SIZES[i], suffix) :
        i \in 1..Len(IOS_ICON_SIZES), suffix \in Suffixes}

\* --update-contents-json has just written Contents.json.
ManifestWritten == gpc = "done" /\ gargs.update /\ gout.exit = 0 /\ manifest.exists

Listed == {manifest.images[i].filename : i \in 1..Len(manifest.images)}

\* C14: the manifest written by generate_contents_json lists every generated
\* variant: after any sequence of generate_variants runs into the directory,
\* with any --suffix values, it has exactly one entry for each variant file
\* present in the directory and no entry for an absent file.
C14_ManifestListsEveryVariantPresent ==
    ManifestWritten =>
        /\ Listed = {n \in VariantNames : Present(outDir.files, n)}
        /\ Len(manifest.images) = Cardinality(Listed)

\* ------------------------------------------------------------------------
\* Claims on the screenshot processor
\* ------------------------------------------------------------------------
\* C15: an unknown device identifier fails with an error and exit status 1
\* before any I/O: no output directory is created, no input file is probed or
\* read, and no output file is written.
C15_UnknownDeviceExitsOneBeforeIO ==
    [][(ppc = "ready" /\ ~Known)
       => (/\ ppc' = "done" /\ pout'.exit = 1
           /\ procOut' = procOut
           /\ pio' = NoIO)]_vars

\* The ordinals whose raw file is present, and whether every raw file present
\* is an image.
PresentOrdinals == {i \in Ordinals : FindInput(rawDir, i) # ""}
AllRawDecodable == \A n \in DOMAIN rawDir : rawDir[n].decodable

\* C16: a missing screenshot never aborts the batch: whatever set P of the
\* ordinals 1..6 has its raw file present, the run completes and writes
\* exactly one output file for each ordinal of P and none for the others,
\* and warns of each missing ordinal.
C16_MissingScreenshotsAreSkipped ==
    ppc = "done" /\ Known /\ AllRawDecodable =>
        /\ pout.exit = 0
        /\ DOMAIN procOut.files =
               {OutputFilename(i, DEVICE_SPECS[pargs.device].export_size) :
                   i \in PresentOrdinals}
        /\ Cardinality(DOMAIN procOut.files) = Cardinality(PresentOrdinals)
        /\ pout.warnings = Ordinals \ PresentOrdinals

\* Screenshots 2 and 5 present, 1, 3, 4 and 6 missing: two files, four warnings.
C16_Witness ==
    /\ ppc = "done" /\ Known /\ AllRawDecodable
    /\ PresentOrdinals = {2, 5}
    /\ pout.exit = 0 /\ pout.warnings = {1, 3, 4, 6}
    /\ Cardinality(DOMAIN procOut.files) = 2

\* C17: every output file written for device d is an image whose pixel
\* dimensions equal d's export resolution, which is also the width x height
\* in the file's name, whatever the size of the input image.
C17_OutputHasExportResolution ==
    Known =>
        \A n \in DOMAIN procOut.files :
            /\ procOut.files[n].size = DEVICE_SPECS[pargs.device].export_size
            /\ \E i \in Ordinals : n = OutputFilename(i, procOut.files[n].size)

\* C18: add_caption preserves the image's dimensions: for every image of
\* width w and height h, caption text and device name, what it returns is
\* exactly w x h.
C18_CaptionPreservesDimensions ==
    pcap.called => pcap.result.size = pcap.img.size

\* A 1000x2000 RGBA screenshot captioned for the iPad.
C18_Witness ==
    /\ pcap.called /\ pargs.device = "ipad"
    /\ pcap.img.size = <<1000, 2000>> /\ pcap.img.mode = "RGBA"
    /\ pcap.result.size = <<1000, 2000>> /\ pcap.result.mode = "RGB"

\* ------------------------------------------------------------------------
\* Claims on the icon composer
\* ------------------------------------------------------------------------
LayerNames(img) == [k \in 1..Len(img.stack) |-> img.stack[k].layer]
CompositionOrder == <<"fill", "glass", "glyph", "noise">>

\* C19: create_app_icon composites its layers strictly in the order
\* background fill, glass card, glyph, noise, each onto the accumulated
\* result of the previous ones, then flattens onto the mode's background
\* colour: in both modes the saved image is 1024x1024, in RGB mode, with no
\* alpha channel.
C19_LayersInOrderThenFlattened ==
    /\ cpc \in {"glass", "glyph", "noise", "flatten"} =>
          /\ canvas.mode = "RGBA" /\ canvas.size = CanvasSize
          /\ LayerNames(canvas) =
                 SubSeq(CompositionOrder, 1,
                        CASE cpc = "glass" -> 1 [] cpc = "glyph" -> 2
                          [] cpc = "noise" -> 3 [] cpc = "flatten" -> 4)
    /\ \A k \in 1..Len(saved) :
          /\ saved[k].image.size = <<1024, 1024>>
          /\ saved[k].image.mode = "RGB"
          /\ LayerNames(saved[k].image) = <<"fill">> \o CompositionOrder
          /\ saved[k].image.stack[1].param = bg_color(saved[k].mode)
          /\ saved[k].image.stack[2].param = bg_color(saved[k].mode)

\* A light and a dark icon saved.
C19_Witness ==
    /\ Len(saved) = 2
    /\ saved[1].mode = "light" /\ saved[2].mode = "dark"
    /\ saved[1].image.mode = "RGB" /\ saved[2].image.mode = "RGB"
    /\ Len(saved[2].image.stack) = 5

ShotsValidated == vout.tool \in {"validate --screenshots", "wt validate"}
RequiredSize(d) ==
    IF vout.tool = "wt validate"
        THEN <<EXPECTED_SCREENSHOTS[d].width, EXPECTED_SCREENSHOTS[d].height>>
        ELSE SCREENSHOT_SPECS[d].size

\* Device d's directory exists and holds six screenshots, all of the size sz.
SixOfSize(d, sz) ==
    /\ shots.root = "dir" /\ shots.devs[d].exists
    /\ Len(shots.devs[d].files) = 6
    /\ \A i \in 1..6 : LET f == shots.devs[d].files[i]
                       IN  f.png /\ f.readable /\ f.size = sz

\* The report passes device d: it has lines on d and none of them is a failure.
FailureLines == {"dir_not_found", "count_short", "wrong_size", "file_error"}
ReportedPass(d) ==
    /\ \E m \in Lines(vout.screenshots.printed) : m.dev = d
    /\ \A m \in Lines(vout.screenshots.printed) : m.dev = d => m.what \notin FailureLines

\* C21: a device directory that exists and holds the required number (6) of
\* screenshots, all of exactly the device's required resolution, is reported
\* as pass for that device; in particular the ipad directory with 6 files of
\* exactly 1640x2360 is reported as pass.
C21_SixExactScreenshotsPass ==
    ShotsValidated =>
        /\ \A d \in Devices : SixOfSize(d, RequiredSize(d)) => ReportedPass(d)
        /\ SixOfSize("ipad", <<1640, 2360>>) => ReportedPass("ipad")

\* ------------------------------------------------------------------------
\* Claims on concurrent invocations
\* ------------------------------------------------------------------------
\* The directory an invocation leaves when it runs alone on a new directory.
Alone(i) ==
    [exists |-> TRUE,
     files |-> [n \in {WriteName(i, k) : k \in 1..Writes(i)} |->
                   WriteImage(i, CHOOSE k \in 1..Writes(i) : WriteName(i, k) = n)]]

BothDone == \A p \in Invocations : inv[p].pc = "done"

\* C22: two concurrent invocations of a generating pipeline that target
\* different output directories do not interfere, whatever the interleaving
\* of their steps: when both have finished, each directory holds exactly the
\* files its own invocation would have written running alone.
C22_DifferentDirectoriesDoNotInterfere ==
    (BothDone /\ inv[1].target # inv[2].target) =>
        \A p \in Invocations : fs[inv[p].target] = Alone(inv[p])

\* Two variant generators with the same suffix, on two directories, done.
C22_Witness ==
    /\ BothDone /\ inv[1].target # inv[2].target
    /\ inv[1].kind = "variants" /\ inv[2].kind = "variants"
    /\ inv[1].suffix = inv[2].suffix
    /\ fs[inv[1].target] # fs[inv[2].target]
    /\ fs[inv[2].target] = Alone(inv[2])

\* ------------------------------------------------------------------------
\* Claims on resizing and on --validate
\* ------------------------------------------------------------------------
\* The export sizes scripts/generate-icon-variants.py has resized to so far.
ResizedTo == {IOS_ICON_SIZES[i].export_size : i \in 1..Len(generated)}

\* C23: the variant generator never upscales: in every run that writes
\* variants, the runs where the operator confirmed a master that is not
\* 1024x1024 included, every size it resizes to is at most the master
\* image's width and at most its height.
C23_NeverUpscales ==
    (gargs.tool = "gen" /\ ~gargs.update /\ gpc \in {"writing", "done"}
        /\ generated # <<>>) =>
        \A s \in ResizedTo : s <= gimg.size[1] /\ s <= gimg.size[2]

\* The output directory holds the files of this run and no other.
OnlyThisRunsFiles ==
    DOMAIN outDir.files = {TableNames[i] : i \in 1..Len(TableNames)}

\* C24: with --validate, the icons generated in the run are validated: for
\* every --suffix, after generate_variants has succeeded into an output
\* directory that was empty, validate_icons on that directory checks the
\* files just written and returns true.
C24_ValidateChecksTheRunsIcons ==
    (gargs.tool = "gen" /\ GenRunEnded /\ gargs.validate /\ gout.exit = 0
        /\ AllVariantsWritten /\ OnlyThisRunsFiles) =>
        gout.validated = "pass"

\* ------------------------------------------------------------------------
\* Claims across the tools
\* ------------------------------------------------------------------------
\* The resolution each validator requires of a device's screenshots.
RequiredByMain(d) == SCREENSHOT_SPECS[d].size
RequiredByWorktree(d) == <<EXPECTED_SCREENSHOTS[d].width, EXPECTED_SCREENSHOTS[d].height>>

\* C25: the screenshot post-processor and the asset validator agree on their
\* static device tables: they have the same device identifiers, and for every
\* device the processor runs for, the resolution the validator requires is
\* the export resolution the processor names its output files after.
C25_DeviceTablesAgree ==
    /\ DOMAIN DEVICE_SPECS = DOMAIN SCREENSHOT_SPECS
    /\ DOMAIN DEVICE_SPECS = DOMAIN EXPECTED_SCREENSHOTS
    /\ (Known /\ ppc # "ready") =>
          /\ RequiredByMain(pargs.device) = DEVICE_SPECS[pargs.device].export_size
          /\ RequiredByWorktree(pargs.device) = DEVICE_SPECS[pargs.device].export_size

\* No preview video for the validator that has run: scripts/ looks for the
\* one path, the worktree's also for any other video in the exports directory.
VideoAbsent ==
    IF vout.tool = "wt validate" THEN ~WtVideoFound ELSE ~video.exists

\* C26: the preview video is optional: when the video file is absent and the
\* icon and screenshots checks pass, the overall result of the validator is
\* pass, exit status 0; the absence of an asset that is not required never by
\* itself makes the validation fail.
C26_AbsentVideoDoesNotFail ==
    (vout.tool \in {"validate --all", "wt validate"} /\ VideoAbsent
        /\ vout.icon.passed /\ vout.screenshots.passed) =>
        vout.exit = 0

====
